---------------------------- MODULE Spec2Model ----------------------------
(***************************************************************************)
(* go-dasl: the DRISL codec (package drisl) as configured over the CBOR    *)
(* library, with the CID hooks of package cid.                             *)
(*                                                                         *)
(* Bytes are naturals 0..255 and wire data are sequences of bytes.         *)
(* Integers of 64 bits and more do not fit the checker's integers, so an   *)
(* integer magnitude is a big-endian byte sequence without leading zeros.  *)
(***************************************************************************)
EXTENDS Naturals, Integers, Sequences, FiniteSets, TLC

(***************************************************************************)
(* Program constants                                                       *)
(***************************************************************************)
CidTagNumber == 42
CidVersion == 1
CodecRaw == 85
CodecDrisl == 113
HashTypeSha256 == 18
HashTypeBlake3 == 30
minCidLength == 4
HashLength == 32
DefaultMaxNestedLevels == 32
DefaultMaxArrayElements == 131072
DefaultMaxMapPairs == 131072

(***************************************************************************)
(* Decoding options.  The values drisl.DecOptions.DecMode gives to the     *)
(* options of the CBOR library, each TRUE when the restriction is on       *)
(***************************************************************************)
DupMapKeyQuiet == FALSE
DupMapKeyEnforcedAPF == TRUE
IndefLengthForbidden == TRUE
MapKeyByteStringForbidden == TRUE
NaNDecodeForbidden == TRUE
InfDecodeForbidden == TRUE
Float64OnlyOff == FALSE
Float64Only == TRUE
TagsAllowed == FALSE
TagsLimited == TRUE
EnforceIntPrefEncOff == FALSE
EnforceIntPrefEnc == TRUE
MapKeyTypeStrict == TRUE
EnforceSortOff == FALSE
EnforceSort == TRUE

\* DecOptions{}
DefaultDecOptions ==
  [MaxNestedLevels |-> 0, MaxArrayElements |-> 0, MaxMapPairs |-> 0,
   Int64RangeOnly |-> FALSE, AllowUndefined |-> FALSE, UseRawCid |-> FALSE]

\* what DecMode makes of the caller's Int64RangeOnly
DecInt64RangeUnset(opts) == FALSE
DecInt64Range(opts) == opts.Int64RangeOnly

\* the simple values a mode accepts beside false, true and null: undefined,
\* with svrUndefined, or none, with svr
SimpleValuesUndefined(opts) == TRUE
SimpleValues(opts) == opts.AllowUndefined

\* DecOptions.DecMode: the library's decoding options (0 means "use the
\* default" for the three caps)
DecMode(opts) ==
  [DupMapKey |-> DupMapKeyEnforcedAPF,
   IndefLength |-> IndefLengthForbidden,
   MapKeyByteString |-> MapKeyByteStringForbidden,
   AllowUndefined |-> SimpleValues(opts),
   NaN |-> NaNDecodeForbidden,
   Inf |-> InfDecodeForbidden,
   Float64Only |-> Float64Only,
   TagsMd |-> TagsLimited,
   EnforceIntPrefEnc |-> EnforceIntPrefEnc,
   MapKeyTypeStrict |-> MapKeyTypeStrict,
   EnforceSort |-> EnforceSort,
   MaxNestedLevels |-> opts.MaxNestedLevels,
   MaxArrayElements |-> opts.MaxArrayElements,
   MaxMapPairs |-> opts.MaxMapPairs,
   Int64RangeOnly |-> DecInt64Range(opts),
   UseRawCid |-> opts.UseRawCid]

\* a decoder that has the default cap whatever the caller asked for
maxNestedLevelsUnset(o) == DefaultMaxNestedLevels

maxNestedLevels(o) ==
  IF o.MaxNestedLevels = 0 THEN DefaultMaxNestedLevels ELSE o.MaxNestedLevels
maxArrayElements(o) ==
  IF o.MaxArrayElements = 0 THEN DefaultMaxArrayElements ELSE o.MaxArrayElements
maxMapPairs(o) ==
  IF o.MaxMapPairs = 0 THEN DefaultMaxMapPairs ELSE o.MaxMapPairs

(***************************************************************************)
(* Byte sequences and magnitudes                                           *)
(***************************************************************************)
Tail2(s, n) == SubSeq(s, n + 1, Len(s))

RECURSIVE Norm(_)
\* strip leading zero bytes
Norm(s) == IF s = <<>> THEN <<>> ELSE IF s[1] = 0 THEN Norm(Tail(s)) ELSE s

RECURSIVE LexLess(_, _)
\* bytes.Compare(a, b) < 0
LexLess(a, b) ==
  IF b = <<>> THEN FALSE
  ELSE IF a = <<>> THEN TRUE
  ELSE IF a[1] < b[1] THEN TRUE
  ELSE IF a[1] > b[1] THEN FALSE
  ELSE LexLess(Tail(a), Tail(b))

\* a < b for two normalised magnitudes
MagLess(a, b) ==
  IF Len(a) # Len(b) THEN Len(a) < Len(b) ELSE LexLess(a, b)
MagLeq(a, b) == a = b \/ MagLess(a, b)

RECURSIVE IncRev(_)
IncRev(r) ==  \* r is little-endian
  IF r = <<>> THEN <<1>>
  ELSE IF r[1] = 255 THEN <<0>> \o IncRev(Tail(r))
  ELSE <<r[1] + 1>> \o Tail(r)
RECURSIVE DecRev(_)
DecRev(r) ==  \* r is little-endian and not zero
  IF r[1] = 0 THEN <<255>> \o DecRev(Tail(r))
  ELSE <<r[1] - 1>> \o Tail(r)
RECURSIVE Rev(_)
Rev(s) == IF s = <<>> THEN <<>> ELSE Rev(Tail(s)) \o <<s[1]>>
\* magnitude + 1 and magnitude - 1
MagInc(m) == Norm(Rev(IncRev(Rev(m))))
MagDec(m) == Norm(Rev(DecRev(Rev(m))))

RECURSIVE PadLeft(_, _)
PadLeft(s, n) == IF Len(s) >= n THEN s ELSE PadLeft(<<0>> \o s, n)

Huge == 16777216
\* the numeric value of a head argument, saturated at Huge
ArgNat(raw) ==
  LET m == Norm(raw) IN
  CASE Len(m) = 0 -> 0
    [] Len(m) = 1 -> m[1]
    [] Len(m) = 2 -> m[1] * 256 + m[2]
    [] Len(m) = 3 -> (m[1] * 256 + m[2]) * 256 + m[3]
    [] OTHER -> Huge

Pow63 == <<128, 0, 0, 0, 0, 0, 0, 0>>
Pow64 == <<1, 0, 0, 0, 0, 0, 0, 0, 0>>
MaxUint64 == <<255, 255, 255, 255, 255, 255, 255, 255>>

(***************************************************************************)
(* Go values.  Every value is a record of the same shape:                  *)
(*   k   kind        t   Go type of an integer or float                    *)
(*   neg, b          sign and magnitude of an integer; bits of a float;    *)
(*                   bytes of a string, byte string or CID                 *)
(*   a   elements of a slice        m   pairs <<key, value>> of a map      *)
(***************************************************************************)
V(k, t, neg, b, a, m) == [k |-> k, t |-> t, neg |-> neg, b |-> b, a |-> a, m |-> m]
NilV == V("nil", "", FALSE, <<>>, <<>>, {})
BoolV(x) == V("bool", "", FALSE, IF x THEN <<1>> ELSE <<0>>, <<>>, {})
IntV(t, neg, abs) == V("int", t, neg, abs, <<>>, {})
FloatV(t, bits) == V("float", t, FALSE, bits, <<>>, {})
BytesV(bs) == V("bytes", "", FALSE, bs, <<>>, {})
TextV(bs) == V("text", "", FALSE, bs, <<>>, {})
ArrV(elems) == V("array", "", FALSE, <<>>, elems, {})
MapV(pairs) == V("map", "", FALSE, <<>>, <<>>, pairs)
CidV(bs) == V("cid", "", FALSE, bs, <<>>, {})
RawCidV(bs) == V("rawcid", "", FALSE, bs, <<>>, {})

(***************************************************************************)
(* Results of the decoding functions                                       *)
(***************************************************************************)
Ok(v, n) == [ok |-> TRUE, err |-> "", v |-> v, n |-> n]
Fail(e) == [ok |-> FALSE, err |-> e, v |-> NilV, n |-> 0]

(***************************************************************************)
(* package cid                                                             *)
(***************************************************************************)
RECURSIVE FromUvarintAt(_, _, _, _)
\* varint.FromUvarint: [ok, val, read]; val is saturated at Huge
FromUvarintAt(buf, i, x, mult) ==
  IF i > Len(buf) THEN [ok |-> FALSE, val |-> 0, read |-> 0]
  ELSE LET b == buf[i] IN
    IF (i = 9 /\ b >= 128) \/ i >= 10 THEN [ok |-> FALSE, val |-> 0, read |-> 0]
    ELSE IF b < 128
      THEN IF b = 0 /\ i > 1 THEN [ok |-> FALSE, val |-> 0, read |-> 0]
           ELSE [ok |-> TRUE,
                 val |-> IF i >= 4 THEN Huge ELSE x + b * mult,
                 read |-> i]
      ELSE FromUvarintAt(buf, i + 1,
                         IF i >= 4 THEN Huge ELSE x + (b % 128) * mult,
                         IF i >= 4 THEN mult ELSE mult * 128)
FromUvarint(buf) == FromUvarintAt(buf, 1, 0, 1)

\* NewCidFromBytes: TRUE iff a Cid is returned (the Cid holds a copy of in)
NewCidFromBytesOk(in) ==
  /\ Len(in) >= minCidLength
  /\ in[1] = CidVersion
  /\ in[2] \in {CodecRaw, CodecDrisl}
  /\ in[3] \in {HashTypeSha256, HashTypeBlake3}
  /\ LET r == FromUvarint(Tail2(in, 3)) IN
       /\ r.ok
       /\ Len(in) - (r.read + 3) = r.val

\* what a constructor returns: the error (in short, "" for none), the bytes
\* of the Cid, and the number of bytes taken from a reader
CidResult(e, b, n) == [err |-> e, b |-> b, n |-> n]

\* NewCidFromBytes
NewCidFromBytes(in) ==
  IF NewCidFromBytesOk(in) THEN CidResult("", in, 0)
  ELSE CidResult("Forbidden", <<>>, 0)

RECURSIVE readUvarintAt(_, _, _, _, _)
\* readUvarint on a reader that holds src and stands before src[pos]:
\* [err, val, read]; val is saturated at Huge, read counts the bytes taken
readUvarintAt(src, pos, i, x, mult) ==
  IF pos + i - 1 > Len(src)
  THEN [err |-> IF i = 1 THEN "EOF" ELSE "UnexpectedEOF", val |-> 0, read |-> i - 1]
  ELSE IF (i = 9 /\ src[pos + i - 1] >= 128) \/ i >= 10
  THEN [err |-> "Overflow", val |-> 0, read |-> i]
  ELSE IF src[pos + i - 1] < 128
  THEN IF src[pos + i - 1] = 0 /\ i > 1
       THEN [err |-> "NotMinimal", val |-> 0, read |-> i]
       ELSE [err |-> "",
             val |-> IF i >= 4 THEN Huge ELSE x + src[pos + i - 1] * mult,
             read |-> i]
  ELSE readUvarintAt(src, pos, i + 1,
                     IF i >= 4 THEN Huge ELSE x + (src[pos + i - 1] % 128) * mult,
                     IF i >= 4 THEN mult ELSE mult * 128)
readUvarint(src, pos) == readUvarintAt(src, pos, 1, 0, 1)

\* fixErr: io.EOF becomes io.ErrUnexpectedEOF
fixErr(e) == IF e = "EOF" THEN "UnexpectedEOF" ELSE e

\* the end of NewCidFromReader, u being what readUvarint returned: an error
\* other than io.ErrUnexpectedEOF is wrapped in a ForbiddenCidError, then
\* io.ReadFull takes the digest
ReadDigest(u, src) ==
  IF u.err = "UnexpectedEOF" THEN CidResult("UnexpectedEOF", <<>>, 3 + u.read)
  ELSE IF u.err # "" THEN CidResult("Forbidden", <<>>, 3 + u.read)
  ELSE IF u.val = 0 THEN CidResult("", SubSeq(src, 1, 3 + u.read), 3 + u.read)
  ELSE IF Len(src) - (3 + u.read) = 0 THEN CidResult(fixErr("EOF"), <<>>, Len(src))
  ELSE IF Len(src) - (3 + u.read) < u.val THEN CidResult("UnexpectedEOF", <<>>, Len(src))
  ELSE CidResult("", SubSeq(src, 1, 3 + u.read + u.val), 3 + u.read + u.val)

\* NewCidFromReader on a reader that yields src and then io.EOF
NewCidFromReader(src) ==
  IF Len(src) < 1 THEN CidResult(fixErr("EOF"), <<>>, 0)
  ELSE IF src[1] # CidVersion THEN CidResult("Forbidden", <<>>, 1)
  ELSE IF Len(src) < 2 THEN CidResult(fixErr("EOF"), <<>>, 1)
  ELSE IF src[2] \notin {CodecRaw, CodecDrisl} THEN CidResult("Forbidden", <<>>, 2)
  ELSE IF Len(src) < 3 THEN CidResult(fixErr("EOF"), <<>>, 2)
  ELSE IF src[3] \notin {HashTypeSha256, HashTypeBlake3}
  THEN CidResult("Forbidden", <<>>, 3)
  ELSE ReadDigest(readUvarint(src, 4), src)

RECURSIVE AppendUvarint(_)
\* binary.AppendUvarint(nil, x)
AppendUvarint(x) ==
  IF x < 128 THEN <<x>> ELSE <<128 + (x % 128)>> \o AppendUvarint(x \div 128)

\* NewCidFromInfo; the length of the digest is not validated
NewCidFromInfo(codec, hashType, digest) ==
  IF codec \notin {CodecRaw, CodecDrisl} THEN CidResult("Forbidden", <<>>, 0)
  ELSE IF hashType \notin {HashTypeSha256, HashTypeBlake3}
  THEN CidResult("Forbidden", <<>>, 0)
  ELSE CidResult("", <<CidVersion, codec, hashType>> \o AppendUvarint(Len(digest))
                       \o digest, 0)

\* multibaseBase32: the alphabet "abcdefghijklmnopqrstuvwxyz234567" as
\* character codes, without padding.  A text is a sequence of character codes
multibaseBase32 ==
  [i \in 1..32 |-> IF i <= 26 THEN 96 + i ELSE 23 + i]
\* the place of a character in the alphabet, 255 for a character outside it
decodeMap(ch) ==
  IF ch \in 97..122 THEN ch - 97
  ELSE IF ch \in 50..55 THEN ch - 24
  ELSE 255

\* the characters of a group of up to five bytes, p being the group padded
\* with zeros to five bytes
EncodeQuantum(p) ==
  << multibaseBase32[(p[1] \div 8) + 1],
     multibaseBase32[((p[1] % 8) * 4 + p[2] \div 64) + 1],
     multibaseBase32[((p[2] \div 2) % 32) + 1],
     multibaseBase32[((p[2] % 2) * 16 + p[3] \div 16) + 1],
     multibaseBase32[((p[3] % 16) * 2 + p[4] \div 128) + 1],
     multibaseBase32[((p[4] \div 4) % 32) + 1],
     multibaseBase32[((p[4] % 4) * 8 + p[5] \div 32) + 1],
     multibaseBase32[(p[5] % 32) + 1] >>
\* the number of characters that n bytes, n <= 5, are encoded in
EncodedLen(n) == (n * 8 + 4) \div 5

RECURSIVE EncodeToString(_)
\* multibaseBase32.EncodeToString
EncodeToString(bs) ==
  IF bs = <<>> THEN <<>>
  ELSE IF Len(bs) >= 5
  THEN EncodeQuantum(SubSeq(bs, 1, 5)) \o EncodeToString(Tail2(bs, 5))
  ELSE SubSeq(EncodeQuantum(bs \o [i \in 1..(5 - Len(bs)) |-> 0]), 1, EncodedLen(Len(bs)))

\* the bytes of a group of up to eight characters, d being their places in
\* the alphabet padded with zeros to eight
DecodeQuantum(d) ==
  << (d[1] * 8 + d[2] \div 4) % 256,
     (d[2] * 64 + d[3] * 2 + d[4] \div 16) % 256,
     (d[4] * 16 + d[5] \div 2) % 256,
     (d[5] * 128 + d[6] * 4 + d[7] \div 8) % 256,
     (d[7] * 32 + d[8]) % 256 >>
\* the number of bytes a last group of n characters gives; a group of 1, 3
\* or 6 characters gives none
DecodedLen(n) ==
  CASE n = 8 -> 5 [] n = 7 -> 4 [] n = 5 -> 3 [] n = 4 -> 2 [] n = 2 -> 1 [] OTHER -> 0

RECURSIVE DecodeGroups(_)
DecodeGroups(d) ==
  IF d = <<>> THEN <<>>
  ELSE IF Len(d) >= 8
  THEN DecodeQuantum(SubSeq(d, 1, 8)) \o DecodeGroups(Tail2(d, 8))
  ELSE SubSeq(DecodeQuantum(d \o [i \in 1..(8 - Len(d)) |-> 0]), 1, DecodedLen(Len(d)))

\* multibaseBase32.DecodeString: [ok, b].  Line breaks are skipped and a
\* character outside the alphabet is an error
stripNewlines(s) == SelectSeq(s, LAMBDA ch : ch \notin {10, 13})
DecodeString(s) ==
  IF \E i \in 1..Len(stripNewlines(s)) : decodeMap(stripNewlines(s)[i]) = 255
  THEN [ok |-> FALSE, b |-> <<>>]
  ELSE [ok |-> TRUE,
        b |-> DecodeGroups([i \in 1..Len(stripNewlines(s)) |->
                              decodeMap(stripNewlines(s)[i])])]

\* NewCidFromString
NewCidFromDecoded(d) ==
  IF ~d.ok THEN CidResult("CorruptInput", <<>>, 0) ELSE NewCidFromBytes(d.b)
NewCidFromString(s) ==
  IF Len(s) = 0 THEN CidResult("Forbidden", <<>>, 0)
  ELSE IF s[1] # 98 THEN CidResult("Forbidden", <<>>, 0)
  ELSE NewCidFromDecoded(DecodeString(Tail(s)))

\* Cid.MarshalText and Cid.String: 'b' and the base32 text of the bytes
MarshalText(b) == <<98>> \o EncodeToString(b)
String(b) == MarshalText(b)
\* Cid.Equals
Equals(b, o) == b = o

RECURSIVE DigestFrom(_, _)
\* Cid.Digest: the bytes after the hash size, whose last byte is taken to be
\* the first one that is not above 0x80
DigestFrom(b, i) == IF b[i] > 128 THEN DigestFrom(b, i + 1) ELSE Tail2(b, i)
Digest(b) == DigestFrom(b, 4)

(***************************************************************************)
(* UTF-8 validity of a text string (utf8.Valid)                            *)
(***************************************************************************)
IsCont(b) == b >= 128 /\ b <= 191
RECURSIVE Utf8Valid(_)
Utf8Valid(s) ==
  IF s = <<>> THEN TRUE
  ELSE LET c == s[1] IN
    CASE c < 128 -> Utf8Valid(Tail(s))
      [] c >= 194 /\ c <= 223 ->
           Len(s) >= 2 /\ IsCont(s[2]) /\ Utf8Valid(Tail2(s, 2))
      [] c >= 224 /\ c <= 239 ->
           /\ Len(s) >= 3 /\ IsCont(s[2]) /\ IsCont(s[3])
           /\ (c = 224 => s[2] >= 160)
           /\ (c = 237 => s[2] <= 159)
           /\ Utf8Valid(Tail2(s, 3))
      [] c >= 240 /\ c <= 244 ->
           /\ Len(s) >= 4 /\ IsCont(s[2]) /\ IsCont(s[3]) /\ IsCont(s[4])
           /\ (c = 240 => s[2] >= 144)
           /\ (c = 244 => s[2] <= 143)
           /\ Utf8Valid(Tail2(s, 4))
      [] OTHER -> FALSE

(***************************************************************************)
(* CBOR heads                                                              *)
(***************************************************************************)
ExtraLen(ai) ==
  CASE ai = 24 -> 1 [] ai = 25 -> 2 [] ai = 26 -> 4 [] ai = 27 -> 8 [] OTHER -> 0

\* the head at data[pos]: major type, additional information, argument bytes
ReadHead(data, pos) ==
  IF pos > Len(data)
  THEN [ok |-> FALSE, err |-> IF pos = 1 THEN "EOF" ELSE "UnexpectedEOF",
        major |-> 0, ai |-> 0, raw |-> <<>>, n |-> 0]
  ELSE LET ib == data[pos]
           ai == ib % 32
       IN IF pos + ExtraLen(ai) > Len(data)
          THEN [ok |-> FALSE, err |-> "UnexpectedEOF",
                major |-> 0, ai |-> 0, raw |-> <<>>, n |-> 0]
          ELSE [ok |-> TRUE, err |-> "", major |-> ib \div 32, ai |-> ai,
                raw |-> IF ai < 24 THEN <<ai>>
                        ELSE SubSeq(data, pos + 1, pos + ExtraLen(ai)),
                n |-> pos + 1 + ExtraLen(ai)]

\* the argument could not have been written in a shorter head
IsPreferredHead(ai, raw) ==
  CASE ai < 24 -> TRUE
    [] ai = 24 -> raw[1] >= 24
    [] ai = 25 -> raw[1] # 0
    [] ai = 26 -> raw[1] # 0 \/ raw[2] # 0
    [] ai = 27 -> raw[1] # 0 \/ raw[2] # 0 \/ raw[3] # 0 \/ raw[4] # 0
    [] OTHER -> FALSE

\* the shortest head for major type mt and an argument of at most 8 bytes
EncodeHead(mt, arg) ==
  LET m == Norm(arg) IN
  CASE Len(m) = 0 -> <<mt * 32>>
    [] Len(m) = 1 -> IF m[1] < 24 THEN <<mt * 32 + m[1]>> ELSE <<mt * 32 + 24, m[1]>>
    [] Len(m) = 2 -> <<mt * 32 + 25>> \o m
    [] Len(m) \in 3..4 -> <<mt * 32 + 26>> \o PadLeft(m, 4)
    [] OTHER -> <<mt * 32 + 27>> \o PadLeft(m, 8)

\* a length or count as argument bytes
NatArg(n) ==
  IF n < 256 THEN <<n>>
  ELSE IF n < 65536 THEN <<n \div 256, n % 256>>
  ELSE <<n \div 65536, (n \div 256) % 256, n % 256>>

(***************************************************************************)
(* The CBOR hooks of the CID types                                         *)
(***************************************************************************)
\* the content of a tagged item b as the library's cbor.Tag shows it to the
\* hooks: [ok, number, isBytes, bytes].  b is a well-formed item, h its head
\* and c the head of its content.
TagContent(c, h, b) ==
  [ok |-> c.ok, number |-> ArgNat(h.raw),
   isBytes |-> c.ok /\ c.major = 2,
   bytes |-> IF c.ok /\ c.major = 2
             THEN SubSeq(b, c.n, c.n + ArgNat(c.raw) - 1) ELSE <<>>]
TagOfHead(h, b) ==
  IF ~h.ok \/ h.major # 6
  THEN [ok |-> FALSE, number |-> 0, isBytes |-> FALSE, bytes |-> <<>>]
  ELSE TagContent(ReadHead(b, h.n), h, b)
DecodeTag(b) == TagOfHead(ReadHead(b, 1), b)

\* Cid.UnmarshalCBOR, tag being the decoded cbor.Tag
CidOfTag(tag) ==
  IF ~tag.ok THEN Fail("Cid")
  ELSE IF tag.number # CidTagNumber THEN Fail("Cid")
  ELSE IF ~tag.isBytes THEN Fail("Cid")
  ELSE IF Len(tag.bytes) = 0 THEN Fail("Cid")
  ELSE IF tag.bytes[1] # 0 THEN Fail("Cid")
  ELSE IF ~NewCidFromBytesOk(Tail(tag.bytes)) THEN Fail("Cid")
  ELSE Ok(CidV(Tail(tag.bytes)), 0)
CidUnmarshalCBOR(b) == CidOfTag(DecodeTag(b))

\* a RawCid made only of bytes that NewCidFromBytes accepts
RawCidOfTagValidated(tag) ==
  IF CidOfTag(tag).ok THEN Ok(RawCidV(Tail(tag.bytes)), 0) ELSE Fail("Cid")

\* RawCid.UnmarshalCBOR, tag being the decoded cbor.Tag
RawCidOfTag(tag) ==
  IF ~tag.ok THEN Fail("Cid")
  ELSE IF tag.number # CidTagNumber THEN Fail("Cid")
  ELSE IF ~tag.isBytes THEN Fail("Cid")
  ELSE IF Len(tag.bytes) = 0 THEN Fail("Cid")
  ELSE IF tag.bytes[1] # 0 THEN Fail("Cid")
  ELSE Ok(RawCidV(Tail(tag.bytes)), 0)
RawCidUnmarshalCBOR(b) == RawCidOfTag(DecodeTag(b))

(***************************************************************************)
(* The strict decoder.  Scan reads the item at data[pos]; with full =      *)
(* FALSE it makes the checks of the well-formedness pass only, with full = *)
(* TRUE also those made while the value is built (UTF-8, duplicate keys,   *)
(* the CID hook).                                                          *)
(***************************************************************************)
IsNaNOrInf(bits) == bits[1] % 128 = 127 /\ bits[2] >= 240

\* the integer a head of major type 0 or 1 stands for, decoded into `any`
DecodeInt(major, raw) ==
  LET m == Norm(raw) IN
  IF major = 0 THEN IntV("uint64", FALSE, m)
  ELSE IntV(IF MagLess(m, Pow63) THEN "int64" ELSE "big", TRUE, MagInc(m))

RECURSIVE Scan(_, _, _, _, _)
RECURSIVE ScanItem(_, _, _, _, _, _)
RECURSIVE ScanTagged(_, _, _, _, _)
RECURSIVE ScanElem(_, _, _, _, _, _, _)
RECURSIVE ScanMap(_, _, _, _, _, _, _, _)
RECURSIVE ScanKey(_, _, _, _, _, _, _, _, _)
RECURSIVE ScanKeyed(_, _, _, _, _, _, _, _, _)
RECURSIVE ScanPair(_, _, _, _, _, _, _, _, _)

\* e is the element just read, the first of the count elements that were
\* still to come; acc holds the elements before it
ScanElem(e, data, count, depth, o, full, acc) ==
  CASE e.ok /\ count = 1 -> Ok(ArrV(Append(acc, e.v)), e.n)
    [] e.ok ->
         ScanElem(ScanItem(ReadHead(data, e.n), data, e.n, depth, o, full),
                  data, count - 1, depth, o, full, Append(acc, e.v))
    [] OTHER -> e

\* prev is the encoded form of the previous key, <<>> before the first key
ScanMap(data, pos, count, depth, o, full, prev, acc) ==
  IF count = 0 THEN Ok(MapV(acc), pos)
  ELSE ScanKey(ReadHead(data, pos), data, pos, count, depth, o, full, prev, acc)

\* kh is the head of the next key
ScanKey(kh, data, pos, count, depth, o, full, prev, acc) ==
  IF ~kh.ok THEN Fail(kh.err)
  ELSE IF (o.MapKeyTypeStrict \/ o.MapKeyByteString) /\ kh.major # 3 THEN Fail("KeyType")
  ELSE ScanKeyed(Scan(data, pos, depth, o, full), data, pos, count, depth, o, full,
                 prev, acc)

\* k is the key just read
ScanKeyed(k, data, pos, count, depth, o, full, prev, acc) ==
  IF ~k.ok THEN k
  ELSE IF o.EnforceSort /\ prev # <<>> /\ LexLess(SubSeq(data, pos, k.n - 1), prev)
    THEN Fail("Unsorted")
  ELSE IF full /\ o.DupMapKey /\ (\E p \in acc : p[1] = k.v.b)
    THEN Fail("DupKey")
  ELSE ScanPair(Scan(data, k.n, depth, o, full), k.v.b, SubSeq(data, pos, k.n - 1),
                data, count, depth, o, full, acc)

\* x is the value just read for key, whose encoded form is kb
ScanPair(x, key, kb, data, count, depth, o, full, acc) ==
  IF ~x.ok THEN x
  ELSE ScanMap(data, x.n, count - 1, depth, o, full, kb,
               {p \in acc : p[1] # key} \cup {<<key, x.v>>})

\* the value a CID hook made of a tagged item that ends before n
Hooked(r, n) == IF r.ok THEN Ok(r.v, n) ELSE r

\* c is the content of the tagged item at pos
ScanTagged(c, data, pos, o, full) ==
  IF ~c.ok THEN c
  ELSE IF ~full THEN Ok(NilV, c.n)
  ELSE IF o.UseRawCid THEN Hooked(RawCidUnmarshalCBOR(SubSeq(data, pos, c.n - 1)), c.n)
  ELSE Hooked(CidUnmarshalCBOR(SubSeq(data, pos, c.n - 1)), c.n)

\* the payload of the string whose head is h
StringOf(h, data) == SubSeq(data, h.n, h.n + ArgNat(h.raw) - 1)

\* what the well-formedness pass finds wrong with the head h of an item
\* that is depth containers deep, "" if nothing
HeadFault(h, depth, o) ==
  IF ~h.ok THEN h.err
  ELSE IF h.ai \in 28..30 THEN "Syntax"
  ELSE IF h.ai = 31
    THEN IF h.major \in {2, 3, 4, 5} /\ o.IndefLength THEN "IndefLength" ELSE "Syntax"
  ELSE IF h.major # 7 /\ o.EnforceIntPrefEnc /\ ~IsPreferredHead(h.ai, h.raw)
    THEN "NonMinimal"
  ELSE IF h.major \in {4, 5, 6} /\ depth + 1 > maxNestedLevels(o) THEN "MaxNested"
  ELSE IF h.major = 4 /\ ArgNat(h.raw) > maxArrayElements(o) THEN "MaxArray"
  ELSE IF h.major = 5 /\ ArgNat(h.raw) > maxMapPairs(o) THEN "MaxMap"
  ELSE IF h.major = 6 /\ o.TagsMd /\ ArgNat(h.raw) # CidTagNumber THEN "Tag"
  ELSE ""

\* the item of major type 0, 1, 2, 3 or 7 whose head is h
ScanScalar(h, data, o, full) ==
  CASE h.major \in {0, 1} ->
         IF o.Int64RangeOnly /\ ~MagLess(Norm(h.raw), Pow63)
         THEN Fail("IntRange")
         ELSE Ok(DecodeInt(h.major, h.raw), h.n)
    [] h.major \in {2, 3} ->
         IF h.n + ArgNat(h.raw) - 1 > Len(data) THEN Fail("UnexpectedEOF")
         ELSE IF h.major = 2 THEN Ok(BytesV(StringOf(h, data)), h.n + ArgNat(h.raw))
         ELSE IF full /\ ~Utf8Valid(StringOf(h, data)) THEN Fail("UTF8")
         ELSE Ok(TextV(StringOf(h, data)), h.n + ArgNat(h.raw))
    [] OTHER ->
         CASE h.ai \in {20, 21} -> Ok(BoolV(h.ai = 21), h.n)
           [] h.ai = 22 -> Ok(NilV, h.n)
           [] h.ai = 23 -> IF o.AllowUndefined THEN Ok(NilV, h.n) ELSE Fail("Simple")
           [] h.ai \in {25, 26} ->
                IF o.Float64Only THEN Fail("FloatWidth")
                ELSE Ok(FloatV(IF h.ai = 26 THEN "float32" ELSE "float16", h.raw), h.n)
           [] h.ai = 27 ->
                IF (o.NaN \/ o.Inf) /\ IsNaNOrInf(h.raw)
                THEN Fail("NaNInf")
                ELSE Ok(FloatV("float64", h.raw), h.n)
           [] OTHER -> Fail("Simple")

\* h is the head at pos
ScanItem(h, data, pos, depth, o, full) ==
  CASE HeadFault(h, depth, o) # "" -> Fail(HeadFault(h, depth, o))
    [] h.major = 4 /\ ArgNat(h.raw) = 0 -> Ok(ArrV(<<>>), h.n)
    [] h.major = 4 ->
         ScanElem(ScanItem(ReadHead(data, h.n), data, h.n, depth + 1, o, full),
                  data, ArgNat(h.raw), depth + 1, o, full, <<>>)
    [] h.major = 5 -> ScanMap(data, h.n, ArgNat(h.raw), depth + 1, o, full, <<>>, {})
    [] h.major = 6 ->
         ScanTagged(Scan(data, h.n, depth + 1, o, full), data, pos, o, full)
    [] OTHER -> ScanScalar(h, data, o, full)

\* the item at data[pos], depth containers deep
Scan(data, pos, depth, o, full) ==
  ScanItem(ReadHead(data, pos), data, pos, depth, o, full)

\* what an open target holds after a failure met while the value was built
PartialV == V("partial", "", FALSE, <<>>, <<>>, {})

(***************************************************************************)
(* The encoding options drisl.EncOptions.EncMode hands to the library      *)
(***************************************************************************)
SortNone == FALSE
SortBytewiseLexical == TRUE
NaNConvertReject == TRUE
InfConvertReject == TRUE
BigIntConvertOnly == TRUE
MapKeyStringOnly == TRUE
EncFloat64Only == TRUE
EncTagsAllowed == FALSE
EncTagsLimited == TRUE

\* EncOptions{}
DefaultEncOptions == [Time |-> "TimeRFC3339Nano", Int64RangeOnly |-> FALSE]

\* what EncMode makes of the caller's Int64RangeOnly
EncInt64RangeUnset(opts) == FALSE
EncInt64Range(opts) == opts.Int64RangeOnly

\* EncOptions.EncMode: the library's encoding options
EncMode(opts) ==
  [Sort |-> SortBytewiseLexical,
   NaNConvert |-> NaNConvertReject,
   InfConvert |-> InfConvertReject,
   BigIntConvert |-> BigIntConvertOnly,
   Time |-> opts.Time,
   IndefLength |-> IndefLengthForbidden,
   MapKeyStringOnly |-> MapKeyStringOnly,
   Float64Only |-> EncFloat64Only,
   TagsMd |-> EncTagsLimited,
   Int64RangeOnly |-> EncInt64Range(opts)]

\* the decoding options of the pass that checks what a MarshalCBOR method
\* returned: the restrictions of the encoding mode em, and no size caps
MarshalerDecMode(em) ==
  [DupMapKey |-> FALSE,
   IndefLength |-> em.IndefLength,
   MapKeyByteString |-> em.MapKeyStringOnly,
   AllowUndefined |-> FALSE,
   NaN |-> em.NaNConvert,
   Inf |-> em.InfConvert,
   Float64Only |-> em.Float64Only,
   TagsMd |-> em.TagsMd,
   EnforceIntPrefEnc |-> TRUE,
   MapKeyTypeStrict |-> em.MapKeyStringOnly,
   EnforceSort |-> em.Sort,
   MaxNestedLevels |-> 65535,
   MaxArrayElements |-> 2147483647,
   MaxMapPairs |-> 2147483647,
   Int64RangeOnly |-> FALSE,
   UseRawCid |-> FALSE]

(***************************************************************************)
(* More Go values, met on the encoding side only                           *)
(***************************************************************************)
\* a struct: fields in declaration order, and the map of its `unknown` field
FieldV(name, val) == V("field", "", FALSE, name, <<val>>, {})
StructV(fields, unknown) == V("struct", "", FALSE, <<>>, fields, unknown)
\* cbor.Tag{Number, Content}
TagV(number, content) == V("tag", "", FALSE, number, <<content>>, {})
\* cbor.RawTag{Number, Content}
RawTagV(number, content) == V("rawtag", "", FALSE, number, <<BytesV(content)>>, {})
\* a value whose MarshalCBOR method returns bs; drisl.RawMessage
HookV(bs) == V("hook", "", FALSE, bs, <<>>, {})
RawMessageV(bs) == V("rawmessage", "", FALSE, bs, <<>>, {})

(***************************************************************************)
(* The canonical encoder                                                   *)
(***************************************************************************)
EOk(bs) == [ok |-> TRUE, err |-> "", out |-> bs]
EFail(e) == [ok |-> FALSE, err |-> e, out |-> <<>>]

\* float32 bits (4 bytes) widened to float64 bits (8 bytes); zero, normal
\* numbers, infinities and NaN
Widen(f) ==
  LET s == f[1] \div 128
      e8 == (f[1] % 128) * 2 + f[2] \div 128
      m23 == ((f[2] % 128) * 256 + f[3]) * 256 + f[4]
      e11 == IF e8 = 0 THEN 0 ELSE IF e8 = 255 THEN 2047 ELSE e8 + 896
  IN <<s * 128 + e11 \div 16,
       (e11 % 16) * 16 + m23 \div 524288,
       (m23 \div 2048) % 256,
       (m23 \div 8) % 256,
       (m23 % 8) * 32, 0, 0, 0>>

Float64Bits(v) == IF v.t = "float32" THEN Widen(v.b) ELSE v.b

\* the pairs of a Go map in the order the runtime iterates them: rank gives
\* every key its place
RECURSIVE IterationOrder(_, _)
IterationOrder(pairs, rank) ==
  IF pairs = {} THEN <<>>
  ELSE LET first == CHOOSE p \in pairs : \A q \in pairs : rank[p[1]] <= rank[q[1]]
       IN <<first>> \o IterationOrder(pairs \ {first}, rank)

RECURSIVE InsertSorted(_, _)
\* insert the encoded pair e = <<key bytes, value bytes>> into the sorted s
InsertSorted(e, s) ==
  IF s = <<>> THEN <<e>>
  ELSE IF LexLess(e[1], s[1][1]) THEN <<e>> \o s
  ELSE <<s[1]>> \o InsertSorted(e, Tail(s))

RECURSIVE SortPairs(_)
SortPairs(s) == IF s = <<>> THEN <<>> ELSE InsertSorted(s[1], SortPairs(Tail(s)))

\* the pairs of a map in their order on the wire
OrderPairs(s, em) == IF em.Sort THEN SortPairs(s) ELSE s

RECURSIVE ConcatPairs(_)
ConcatPairs(s) ==
  IF s = <<>> THEN <<>> ELSE s[1][1] \o s[1][2] \o ConcatPairs(Tail(s))

\* the check made on the bytes a MarshalCBOR method returned: one complete
\* well-formed item under the encoder's restrictions
WholeItem(wf, bs) == wf.ok /\ wf.n = Len(bs) + 1
MarshalerOutputOk(bs, em) ==
  WholeItem(Scan(bs, 1, 0, MarshalerDecMode(em), FALSE), bs)

\* tag 42 around a byte string of the CID's bytes alone
CidMarshalCBORBare(b) ==
  EncodeHead(6, <<CidTagNumber>>) \o EncodeHead(2, NatArg(Len(b))) \o b

\* Cid.MarshalCBOR: tag 42 around a byte string 0x00 || the CID's bytes
CidMarshalCBOR(b) ==
  EncodeHead(6, <<CidTagNumber>>) \o EncodeHead(2, NatArg(Len(b) + 1)) \o <<0>> \o b

EncodeInt(v, eo) ==
  LET arg == IF v.neg THEN MagDec(v.b) ELSE v.b IN
  IF v.t = "big" /\ eo.BigIntConvert /\ Len(arg) > 8 THEN EFail("BigInt")
  ELSE IF eo.Int64RangeOnly /\ ~MagLess(arg, Pow63) THEN EFail("IntRange")
  ELSE EOk(EncodeHead(IF v.neg THEN 1 ELSE 0, arg))

\* Cid.MarshalCBOR returns an error for the Cid that was never given bytes
MarshalCBORFails(v) == v.k = "cid" /\ v.b = <<>>

\* the bytes a value's MarshalCBOR method returns
MarshalCBOR(v) ==
  CASE v.k = "rawtag" -> EncodeHead(6, v.b) \o v.a[1].b
    [] v.k \in {"cid", "rawcid"} -> CidMarshalCBOR(v.b)
    [] OTHER -> v.b

RECURSIVE Enc(_, _, _)
RECURSIVE EncArray(_, _, _)
RECURSIVE EncPairs(_, _, _)

EncArray(elems, eo, rank) ==
  IF elems = <<>> THEN EOk(<<>>)
  ELSE LET e == Enc(elems[1], eo, rank) IN
       IF ~e.ok THEN e
       ELSE LET r == EncArray(Tail(elems), eo, rank) IN
            IF ~r.ok THEN r ELSE EOk(e.out \o r.out)

\* the encoded pairs <<key bytes, value bytes>> of a sequence of pairs; the
\* result's out is a sequence of such pairs
EncPairs(pairs, eo, rank) ==
  IF pairs = <<>> THEN EOk(<<>>)
  ELSE LET x == Enc(pairs[1][2], eo, rank) IN
       IF ~Utf8Valid(pairs[1][1]) THEN EFail("UTF8")
       ELSE IF ~x.ok THEN x
       ELSE LET r == EncPairs(Tail(pairs), eo, rank) IN
            IF ~r.ok THEN r
            ELSE EOk(<<<<EncodeHead(3, NatArg(Len(pairs[1][1]))) \o pairs[1][1],
                         x.out>>>> \o r.out)

\* the declared fields of a struct as pairs <<key, value>>
FieldPairs(fields) == [i \in 1..Len(fields) |-> <<fields[i].b, fields[i].a[1]>>]

Enc(v, eo, rank) ==
  CASE v.k = "nil" -> EOk(<<246>>)
    [] v.k = "bool" -> EOk(IF v.b = <<1>> THEN <<245>> ELSE <<244>>)
    [] v.k = "int" -> EncodeInt(v, eo)
    [] v.k = "float" ->
         LET bits == Float64Bits(v) IN
         IF (eo.NaNConvert \/ eo.InfConvert) /\ IsNaNOrInf(bits)
         THEN EFail("NaNInf") ELSE EOk(<<251>> \o bits)
    [] v.k = "bytes" -> EOk(EncodeHead(2, NatArg(Len(v.b))) \o v.b)
    [] v.k = "text" ->
         IF ~Utf8Valid(v.b) THEN EFail("UTF8")
         ELSE EOk(EncodeHead(3, NatArg(Len(v.b))) \o v.b)
    [] v.k = "array" ->
         LET r == EncArray(v.a, eo, rank) IN
         IF ~r.ok THEN r ELSE EOk(EncodeHead(4, NatArg(Len(v.a))) \o r.out)
    [] v.k = "map" ->
         LET r == EncPairs(IterationOrder(v.m, rank), eo, rank) IN
         IF ~r.ok THEN r
         ELSE EOk(EncodeHead(5, NatArg(Len(r.out))) \o ConcatPairs(OrderPairs(r.out, eo)))
    [] v.k = "struct" ->
         LET r == EncPairs(FieldPairs(v.a) \o IterationOrder(v.m, rank), eo, rank) IN
         IF ~r.ok THEN r
         ELSE EOk(EncodeHead(5, NatArg(Len(r.out))) \o ConcatPairs(OrderPairs(r.out, eo)))
    [] v.k = "tag" ->
         IF eo.TagsMd /\ v.b # <<CidTagNumber>> THEN EFail("Tag")
         ELSE LET c == Enc(v.a[1], eo, rank) IN
              IF ~c.ok THEN c ELSE EOk(EncodeHead(6, v.b) \o c.out)
    [] v.k \in {"rawtag", "hook", "rawmessage", "cid", "rawcid"} ->
         IF MarshalCBORFails(v) THEN EFail("NilCid")
         ELSE IF MarshalerOutputOk(MarshalCBOR(v), eo) THEN EOk(MarshalCBOR(v))
         ELSE EFail("Marshaler")
    [] OTHER -> EFail("UnsupportedType")

\* EncMode.Marshal(v): [ok, err, out]; rank is the iteration order of Go's
\* maps
Marshal(v, opts, rank) == Enc(v, EncMode(opts), rank)

(***************************************************************************)
(* Typed decode targets                                                    *)
(***************************************************************************)
\* struct { A int `cbor:"a"`; B int `cbor:"b"` }: the keys of its fields
FieldA == <<97>>
FieldB == <<98>>
ZeroInt == IntV("int64", FALSE, <<>>)
ZeroStruct == StructV(<<FieldV(FieldA, ZeroInt), FieldV(FieldB, ZeroInt)>>, {})

ToLower(s) == [i \in 1..Len(s) |-> IF s[i] \in 65..90 THEN s[i] + 32 ELSE s[i]]

\* the field a key binds to: an exact match first, then a case-insensitive
\* one; <<>> when the struct has no such field
MatchField(name) ==
  IF name \in {FieldA, FieldB} THEN name
  ELSE IF ToLower(name) \in {FieldA, FieldB} THEN ToLower(name)
  ELSE <<>>

\* the integer x fits Go's int
FitsInt(x) == IF x.neg THEN ~MagLess(Pow63, x.b) ELSE MagLess(x.b, Pow63)

SetField(st, f, x) ==
  StructV([i \in 1..Len(st.a) |->
             IF st.a[i].b = f THEN FieldV(f, IntV("int64", x.neg, x.b)) ELSE st.a[i]],
          st.m)

\* how a key is remembered for the detection of duplicates: by the field it
\* binds to, or by itself when it binds to none
KeyId(name) ==
  IF MatchField(name) = <<>> THEN <<"key", name>> ELSE <<"field", MatchField(name)>>

RECURSIVE BindPairs(_, _, _, _, _, _, _)
RECURSIVE BindKey(_, _, _, _, _, _, _)
RECURSIVE BindValue(_, _, _, _, _, _, _, _)

\* the pairs of a map bound to the struct st; seen holds the fields and the
\* unmatched keys met so far, terr the first type error
BindPairs(data, pos, count, o, seen, st, terr) ==
  IF count = 0 THEN [err |-> terr, v |-> st]
  ELSE BindKey(Scan(data, pos, 1, o, TRUE), data, count, o, seen, st, terr)

\* k is the decoded key
BindKey(k, data, count, o, seen, st, terr) ==
  IF ~k.ok THEN [err |-> k.err, v |-> st]
  ELSE IF o.DupMapKey /\ KeyId(k.v.b) \in seen
    THEN [err |-> "DupKey", v |-> st]
  ELSE BindValue(Scan(data, k.n, 1, o, MatchField(k.v.b) # <<>>),
                 MatchField(k.v.b), data, count, o,
                 seen \cup {KeyId(k.v.b)}, st, terr)

\* x is the value of the key that binds to field f: decoded if f is a field,
\* skipped if not
BindValue(x, f, data, count, o, seen, st, terr) ==
  IF ~x.ok THEN [err |-> x.err, v |-> st]
  ELSE IF f = <<>> \/ x.v.k = "nil"
    THEN BindPairs(data, x.n, count - 1, o, seen, st, terr)
  ELSE IF x.v.k = "int" /\ FitsInt(x.v)
    THEN BindPairs(data, x.n, count - 1, o, seen, SetField(st, f, x.v), terr)
  ELSE BindPairs(data, x.n, count - 1, o, seen, st,
                 IF terr = "" THEN "Type" ELSE terr)

\* a well-formed item bound to a struct target holding old
BindStruct(data, o, old) ==
  LET h == ReadHead(data, 1) IN
  IF h.major = 7 /\ h.ai \in {22, 23} THEN [err |-> "", v |-> old]
  ELSE IF h.major # 5 THEN [err |-> "Type", v |-> old]
  ELSE BindPairs(data, h.n, ArgNat(h.raw), o, {}, old, "")

\* c is the decoded content of a tag
TagOf(number, c, old) ==
  IF c.ok THEN [err |-> "", v |-> TagV(number, c.v)] ELSE [err |-> c.err, v |-> old]

\* a well-formed item bound to a cbor.Tag target
BindTag(data, o, old) ==
  LET h == ReadHead(data, 1) IN
  IF h.major = 7 /\ h.ai \in {22, 23} THEN [err |-> "", v |-> old]
  ELSE IF h.major # 6 THEN [err |-> "Type", v |-> old]
  ELSE TagOf(Norm(h.raw), Scan(data, h.n, 1, o, TRUE), old)

\* a well-formed item bound to a time.Time target: a number is seconds since
\* the epoch, a text is an RFC 3339 timestamp, which has 20 bytes at least
minRFC3339Len == 20
TimeV(x) == V("time", x.t, x.neg, x.b, <<>>, {})
\* p is the decoded item
TimeOf(p, old) ==
  IF ~p.ok THEN [err |-> p.err, v |-> old]
  ELSE IF p.v.k \in {"int", "float"} THEN [err |-> "", v |-> TimeV(p.v)]
  ELSE IF p.v.k = "text" /\ Len(p.v.b) < minRFC3339Len
    THEN [err |-> "TimeParse", v |-> old]
  ELSE [err |-> "Type", v |-> old]
BindTime(data, o, old) ==
  LET h == ReadHead(data, 1) IN
  IF h.major = 7 /\ h.ai \in {22, 23} THEN [err |-> "", v |-> old]
  ELSE TimeOf(Scan(data, 1, 0, o, TRUE), old)

\* a well-formed item bound to a cid.Cid target through its UnmarshalCBOR
BindCid(data, o, old) ==
  LET r == CidUnmarshalCBOR(data) IN
  IF r.ok THEN [err |-> "", v |-> r.v] ELSE [err |-> r.err, v |-> old]

\* a well-formed item bound to an open target
ValueOf(p) ==
  IF p.ok THEN [err |-> "", v |-> p.v] ELSE [err |-> p.err, v |-> PartialV]
BindAny(data, o, old) == ValueOf(Scan(data, 1, 0, o, TRUE))

Bind(data, o, target, old) ==
  CASE target = "struct" -> BindStruct(data, o, old)
    [] target = "tag" -> BindTag(data, o, old)
    [] target = "time" -> BindTime(data, o, old)
    [] target = "cid" -> BindCid(data, o, old)
    [] OTHER -> BindAny(data, o, old)

\* the first item of data is bound and what follows it is left alone
BindFirst(wf, data, o, target, old) ==
  IF ~wf.ok THEN [err |-> wf.err, v |-> old]
  ELSE Bind(SubSeq(data, 1, wf.n - 1), o, target, old)

\* DecMode.UnmarshalFirst(data, &v), v holding old: [err, v]
UnmarshalFirst(data, opts, target, old) ==
  BindFirst(Scan(data, 1, 0, DecMode(opts), FALSE), data, DecMode(opts), target, old)

\* wf is the outcome of the well-formedness pass over data: the data are
\* checked as a whole, trailing bytes included, before anything is bound
CheckThenBind(wf, data, o, target, old) ==
  IF ~wf.ok THEN [err |-> wf.err, v |-> old]
  ELSE IF wf.n # Len(data) + 1 THEN [err |-> "Extraneous", v |-> old]
  ELSE Bind(data, o, target, old)

\* DecMode.Unmarshal(data, &v), v holding old: [err, v]
Unmarshal(data, opts, target, old) ==
  CheckThenBind(Scan(data, 1, 0, DecMode(opts), FALSE), data, DecMode(opts), target, old)

(***************************************************************************)
(* Inputs of Unmarshal                                                     *)
(***************************************************************************)
MaxTokens == 2
MaxPairs == 3
MaxShared == 2

RECURSIVE Concat(_)
Concat(ss) == IF ss = <<>> THEN <<>> ELSE ss[1] \o Concat(Tail(ss))

\* a CID: version 1, raw codec, SHA-256, a digest of no bytes
ShortCid == <<1, 85, 18, 0>>

\* pieces of wire data: integers (one of them with a non-minimal head), text,
\* bytes, array and map heads, tag heads, null
Tokens ==
  { <<0>>, <<24, 0>>, <<32>>, <<97, 97>>, <<97, 98>>, <<65, 0>>,
    <<129>>, <<130>>, <<161>>, <<162>>, <<216, 42>>, <<193>>, <<246>>,
    <<69, 0>> \o ShortCid }
TokenData == {Concat(ts) : ts \in UNION {[1..n -> Tokens] : n \in 0..MaxTokens}}

\* single items, valid and invalid
IntItems ==
  { <<0>>, <<23>>, <<24, 24>>, <<24, 23>>, <<25, 1, 0>>, <<25, 0, 255>>,
    <<26, 0, 1, 0, 0>>, <<26, 0, 0, 255, 255>>,
    <<27, 0, 0, 0, 1, 0, 0, 0, 0>>, <<27, 0, 0, 0, 0, 255, 255, 255, 255>>,
    <<27, 127, 255, 255, 255, 255, 255, 255, 255>>, <<27>> \o Pow63,
    <<27>> \o MaxUint64,
    <<32>>, <<56, 0>>, <<56, 24>>, <<57, 0, 24>>,
    <<59, 127, 255, 255, 255, 255, 255, 255, 255>>, <<59>> \o Pow63,
    <<59>> \o MaxUint64 }
StringItems ==
  { <<64>>, <<65, 0>>, <<88, 0>>, <<88, 1, 0>>, <<89, 0, 1, 0>>,
    <<96>>, <<97, 97>>, <<120, 1, 97>>, <<121, 0, 1, 97>>, <<98, 195, 40>>,
    <<98, 195, 169>> }
ContainerItems ==
  { <<128>>, <<152, 0>>, <<129, 0>>, <<152, 1, 0>>,
    <<160>>, <<184, 0>>, <<161, 97, 97, 0>>, <<184, 1, 97, 97, 0>>,
    <<161, 0, 0>>, <<161, 246, 0>>, <<161, 65, 97, 0>>,
    <<162, 97, 98, 1, 97, 97, 2>>, <<162, 97, 97, 1, 97, 97, 2>> }
TagItems ==
  { <<216, 42, 69, 0>> \o ShortCid, <<217, 0, 42, 69, 0>> \o ShortCid,
    <<216, 42, 88, 5, 0>> \o ShortCid,
    <<216, 42, 65, 0>>, <<216, 42, 0>>, <<216, 42, 98, 48, 48>>,
    <<216, 42, 69, 0, 2, 85, 18, 0>>, <<216, 42, 69, 1>> \o ShortCid,
    <<193, 0>>, <<192, 97, 97>>, <<216, 43, 0>>, <<216, 24, 0>>,
    <<193, 69, 0>> \o ShortCid }
SimpleItems ==
  { <<244>>, <<245>>, <<246>>, <<247>>, <<224>>, <<248, 32>>, <<248, 22>>,
    <<249, 62, 0>>, <<250, 63, 192, 0, 0>>,
    <<251, 63, 248, 0, 0, 0, 0, 0, 0>>, <<251, 0, 0, 0, 0, 0, 0, 0, 0>>,
    <<251, 128, 0, 0, 0, 0, 0, 0, 0>>, <<251, 127, 248, 0, 0, 0, 0, 0, 0>>,
    <<251, 127, 240, 0, 0, 0, 0, 0, 0>>, <<251, 255, 240, 0, 0, 0, 0, 0, 0>>,
    <<159, 255>>, <<191, 255>>, <<95, 255>>, <<127, 255>>, <<255>>, <<28>> }
Items == IntItems \cup StringItems \cup ContainerItems \cup TagItems \cup SimpleItems

\* an item alone, in an array, as the value of a map, and followed by one
\* more byte or by another item
ItemData ==
  Items \cup {<<129>> \o x : x \in Items} \cup {<<161, 97, 97>> \o x : x \in Items}
    \cup {x \o <<0>> : x \in Items} \cup {x \o <<246>> : x \in Items}

\* maps of up to MaxPairs pairs, in every order of their keys
MapKeys == { <<97>>, <<98>>, <<97, 97>>, <<65>> }
MapPairData ==
  { EncodeHead(3, NatArg(Len(k))) \o k \o x : k \in MapKeys, x \in {<<1>>, <<160>>} }
MapData ==
  UNION { {EncodeHead(5, NatArg(n)) \o Concat(ps) : ps \in [1..n -> MapPairData]} :
            n \in 0..MaxPairs }

Targets == {"any", "struct", "tag", "time", "cid"}
Int64RangeOnlyDecOptions == [DefaultDecOptions EXCEPT !.Int64RangeOnly = TRUE]
AllowUndefinedDecOptions == [DefaultDecOptions EXCEPT !.AllowUndefined = TRUE]
UseRawCidDecOptions == [DefaultDecOptions EXCEPT !.UseRawCid = TRUE]
DecOptionsSet ==
  {DefaultDecOptions, Int64RangeOnlyDecOptions, AllowUndefinedDecOptions,
   UseRawCidDecOptions}

\* what a target holds before the call
OldValue(target) ==
  CASE target = "struct" -> SetField(ZeroStruct, FieldA, IntV("int64", FALSE, <<7>>))
    [] target = "tag" -> TagV(<<CidTagNumber>>, BytesV(<<0>> \o ShortCid))
    [] target = "time" -> TimeV(ZeroInt)
    [] target = "cid" -> CidV(<<1, 113, 18, 0>>)
    [] OTHER -> TextV(<<111, 108, 100>>)

\* the calls of Unmarshal: <<data, target, options>>
UnmarshalCalls ==
  (ItemData \X Targets \X DecOptionsSet)
    \cup (TokenData \X {"any"} \X {DefaultDecOptions})
    \cup (MapData \X {"any", "struct"} \X {DefaultDecOptions})

(***************************************************************************)
(* Inputs of Marshal                                                       *)
(***************************************************************************)
MaxInt64 == MagDec(Pow63)
One == IntV("int64", FALSE, <<1>>)

GoInts ==
  {IntV("uint64", FALSE, m) :
     m \in {<<>>, <<23>>, <<24>>, <<255>>, <<1, 0>>, <<255, 255>>, <<1, 0, 0>>,
            <<255, 255, 255, 255>>, <<1, 0, 0, 0, 0>>, MaxInt64, Pow63, MaxUint64}}
  \cup {IntV("int64", FALSE, m) : m \in {<<>>, <<24>>, MaxInt64}}
  \cup {IntV("int64", TRUE, m) : m \in {<<1>>, <<24>>, <<25>>, <<1, 0>>, <<1, 1>>, Pow63}}
  \cup {IntV("big", FALSE, m) :
          m \in {<<>>, <<1>>, MaxInt64, Pow63, MaxUint64, Pow64, MagInc(Pow64)}}
  \cup {IntV("big", TRUE, m) :
          m \in {<<1>>, Pow63, MagInc(Pow63), MaxUint64, Pow64, MagInc(Pow64)}}
GoFloats ==
  {FloatV("float64", b) :
          b \in {<<63, 248, 0, 0, 0, 0, 0, 0>>, <<0, 0, 0, 0, 0, 0, 0, 0>>,
                 <<128, 0, 0, 0, 0, 0, 0, 0>>, <<127, 248, 0, 0, 0, 0, 0, 0>>,
                 <<127, 240, 0, 0, 0, 0, 0, 0>>, <<255, 240, 0, 0, 0, 0, 0, 0>>,
                 <<192, 16, 102, 102, 102, 102, 102, 102>>}}
  \cup {FloatV("float32", b) :
          b \in {<<63, 192, 0, 0>>, <<0, 0, 0, 0>>, <<128, 0, 0, 0>>,
                 <<127, 192, 0, 0>>, <<127, 128, 0, 0>>, <<62, 170, 170, 171>>}}
GoStrings ==
  {TextV(b) : b \in {<<>>, <<97>>, <<195, 169>>, <<195, 40>>}}
  \cup {BytesV(b) : b \in {<<>>, <<0>>}}
GoCids ==
  {CidV(ShortCid), CidV(<<1, 113, 30, 0>>), CidV(<<1, 85, 18, 1, 9>>), CidV(<<>>),
   RawCidV(ShortCid), RawCidV(<<2, 85>>)}
GoScalars ==
  {NilV, BoolV(FALSE), BoolV(TRUE)} \cup GoInts \cup GoFloats \cup GoStrings \cup GoCids

\* slices of up to two elements
GoElems == {One, NilV, TextV(<<98>>), FloatV("float32", <<63, 192, 0, 0>>), CidV(ShortCid)}
GoSlices ==
  {ArrV(s) : s \in UNION {[1..n -> GoElems] : n \in 0..2}} \cup {ArrV(<<ArrV(<<>>)>>)}

\* maps over every subset of MapKeys
GoMapVals == {One, MapV({<<<<98>>, One>>, <<<<97, 97>>, One>>})}
GoMaps ==
  UNION { {MapV({<<k, f[k]>> : k \in K}) : f \in [K -> GoMapVals]} : K \in SUBSET MapKeys }

\* structs: two or three declared fields in every order, and an `unknown`
\* field holding keys that are no declared field's
FieldNames == {<<97>>, <<98>>, <<97, 97>>}
FieldLists ==
  {s \in UNION {[1..n -> FieldNames] : n \in 2..3} :
     \A i, j \in 1..Len(s) : i # j => s[i] # s[j]}
GoStructs ==
  UNION { {StructV([i \in 1..Len(s) |-> FieldV(s[i], One)], {<<k, One>> : k \in K}) :
             K \in SUBSET (MapKeys \ {s[i] : i \in 1..Len(s)})} : s \in FieldLists }

\* values with a MarshalCBOR method, by the bytes it returns
GoHooks ==
  {HookV(bs) : bs \in ItemData \cup {<<>>}} \cup {RawMessageV(bs) : bs \in Items}

GoTags ==
  {TagV(n, c) : n \in {<<1>>, <<CidTagNumber>>, <<43>>},
                c \in {One, BytesV(<<0>> \o ShortCid), BytesV(<<0>>)}}
  \cup {RawTagV(n, c) : n \in {<<1>>, <<CidTagNumber>>, <<123>>},
                        c \in {<<0>>, <<69, 0>> \o ShortCid, <<24, 0>>}}

GoValues ==
  GoScalars \cup GoSlices \cup GoMaps \cup GoStructs \cup GoHooks \cup GoTags

Int64RangeOnlyEncOptions == [DefaultEncOptions EXCEPT !.Int64RangeOnly = TRUE]
EncOptionsSet == {DefaultEncOptions, Int64RangeOnlyEncOptions}

RECURSIVE KeysIn(_)
\* the keys of the maps that occur in x
KeysIn(x) ==
  {p[1] : p \in x.m} \cup UNION {KeysIn(p[2]) : p \in x.m}
    \cup UNION {KeysIn(x.a[i]) : i \in 1..Len(x.a)}

\* the orders in which the runtime may iterate the maps in x
Ranks(x) ==
  {r \in [KeysIn(x) -> 1..Cardinality(KeysIn(x))] :
     \A a, b \in KeysIn(x) : a # b => r[a] # r[b]}

(***************************************************************************)
(* Inputs nested to a given depth                                          *)
(***************************************************************************)
MaxDepth == 34

\* the caps a caller asks for: 0 leaves the default, and 4 is the least
\* that DecOptions.MaxNestedLevels may be set to
NestingCaps == {0, 4, 5}

\* what is nested: an integer, an empty array, an empty map, a CID, and maps
\* that hold one of these
Leaves ==
  {<<0>>, <<128>>, <<160>>, <<216, 42, 69, 0>> \o ShortCid,
   <<161, 97, 97, 0>>, <<161, 97, 97, 128>>, <<161, 97, 97, 129, 160>>,
   <<161, 97, 97, 216, 42, 69, 0>> \o ShortCid}

RECURSIVE Wrap(_, _)
\* x as the one element of an array, n times over
Wrap(n, x) == IF n = 0 THEN x ELSE <<129>> \o Wrap(n - 1, x)

NestedData == {Wrap(n, x) : n \in 0..MaxDepth, x \in Leaves}

(***************************************************************************)
(* Streams: an Encoder writes items to a sink one after the other, and a   *)
(* Decoder reads them back from a source one item per call                 *)
(***************************************************************************)
MaxStream == 2

\* the values the stream's writer encodes
StreamValues ==
  {IntV("int64", FALSE, <<42>>), TextV(<<104, 105>>), NilV, CidV(ShortCid),
   ArrV(<<One, TextV(<<98>>)>>), MapV({<<<<98>>, One>>, <<<<97, 97>>, One>>})}

\* a Decoder that has not been made
NoStream ==
  [pc |-> "off", vals |-> <<>>, parts |-> <<>>, src |-> <<>>, off |-> 0,
   calls |-> 0, got |-> <<>>, res |-> ""]

\* the outcome of one Decode: the error, the value, the bytes consumed
Decoded(r, n) == [err |-> r.err, v |-> r.v, n |-> n]

\* the Decoder has found where the next item ends (wf): the item's bytes,
\* and no more, are taken from the source and bound
DecodeItem(wf, rest, o) ==
  IF ~wf.ok THEN Decoded([err |-> wf.err, v |-> NilV], 0)
  ELSE Decoded(Bind(SubSeq(rest, 1, wf.n - 1), o, "any", NilV), wf.n - 1)

\* Decoder.Decode(&v), v an empty interface, rest being what the source
\* still holds: io.EOF when it holds nothing, io.ErrUnexpectedEOF when it
\* ends inside an item
Decode(rest, opts) ==
  DecodeItem(Scan(rest, 1, 0, DecMode(opts), FALSE), rest, DecMode(opts))

(***************************************************************************)
(* Cids and the slices around them.  A slice is the number of an array in  *)
(* the heap, a sequence of arrays; 0 is the nil slice                      *)
(***************************************************************************)
Alloc(h, bs) == [heap |-> Append(h, bs), ref |-> Len(h) + 1]
\* the slice itself, where the code makes a copy
ShareBytes(h, ref) == [heap |-> h, ref |-> ref]
\* b := make([]byte, len(in)); copy(b, in)
CopyBytes(h, ref) == Alloc(h, h[ref])
\* Cid.Bytes and Cid.MarshalBinary
Bytes(h, ref) == CopyBytes(h, ref)

\* the values of the tests
cidBytes ==
  <<1, 85, 18, 32, 173, 238, 46, 143, 181, 69, 156, 155, 207, 7, 215, 215,
    141, 17, 131, 191, 64, 167, 246, 15, 87, 165, 74, 25, 25, 72, 1, 201,
    162, 126, 173, 135>>
cidDigest == Tail2(cidBytes, 4)
cidStr ==
  <<98, 97, 102, 107, 114, 101, 105, 102, 110, 53, 121, 120, 105, 55, 110, 107,
    102, 116, 115, 110, 52, 54, 98, 54, 120, 50, 54, 103, 114, 100, 97, 53,
    55, 105, 99, 116, 55, 109, 100, 50, 120, 117, 118, 102, 98, 115, 103, 107,
    105, 97, 104, 101, 50, 101, 55, 118, 110, 113, 52>>

ToUpper(s) == [i \in 1..Len(s) |-> IF s[i] \in 97..122 THEN s[i] - 32 ELSE s[i]]
Upto(s, n) == SubSeq(s, 1, n)

\* the bytes given to NewCidFromBytes
CidByteInputs ==
  { cidBytes,
    <<1, 113, 30, 32>> \o cidDigest,
    <<2, 85, 18, 32>> \o cidDigest,
    <<1, 86, 18, 32>> \o cidDigest,
    <<1, 85, 19, 32>> \o cidDigest,
    <<1, 85, 18, 31>> \o cidDigest,
    <<1, 85, 18, 33>> \o cidDigest \o <<7>>,
    <<1, 85, 18, 31>> \o Upto(cidDigest, 31),
    Upto(cidBytes, 35), cidBytes \o <<102>>,
    ShortCid, <<1, 113, 30, 1, 9>>, <<1, 85, 18, 128, 0>>, <<1, 85, 18, 129>>,
    <<1, 85, 18>>, <<>> }
\* what the reader given to NewCidFromReader yields before io.EOF
CidReaderInputs ==
  CidByteInputs \cup
  { cidBytes \o <<102, 111, 111>>, Upto(cidBytes, 4), Upto(cidBytes, 20),
    <<1>>, <<1, 85>>, ShortCid \o <<102>> }
\* the texts given to NewCidFromString
CidStringInputs ==
  { cidStr, ToUpper(cidStr), <<98>> \o ToUpper(Tail(cidStr)),
    Upto(cidStr, 58) \o <<53>>, Upto(cidStr, 58), cidStr \o <<10>>,
    cidStr \o <<97, 97>>, Tail(cidStr), <<122>> \o Tail(cidStr),
    MarshalText(ShortCid), MarshalText(<<1, 113, 30, 1, 9>>),
    MarshalText(<<2, 85, 18, 32>> \o cidDigest),
    <<122, 98, 50, 114, 104, 105, 77, 69, 78, 102, 57, 101, 55, 68, 116, 71,
      114, 115, 87, 52, 54, 121, 76, 83, 119, 55, 52, 51, 71, 78, 49, 84,
      54, 103, 55, 81, 70, 106, 85, 118, 88, 67, 120, 109, 118, 78, 110, 83,
      114>>,
    <<98>>, <<>> }
\* the digests given to NewCidFromInfo
CidDigestInputs == {cidDigest, Upto(cidDigest, 31), <<9>>, <<>>}
\* the bytes given to Cid.UnmarshalCBOR
CidCBORInputs ==
  { <<216, 42, 88, 37, 0>> \o cidBytes,
    <<216, 43, 88, 37, 0>> \o cidBytes,
    <<216, 42, 88, 37, 1>> \o cidBytes,
    <<216, 42, 88, 36>> \o cidBytes,
    <<216, 42, 120, 37, 0>> \o cidBytes,
    <<216, 42, 88, 37, 0, 2>> \o Tail(cidBytes),
    <<216, 42, 88, 36, 0>> \o Upto(cidBytes, 35),
    <<216, 42, 69, 0>> \o ShortCid,
    <<216, 42, 64>>, <<216, 42, 65, 0>>, <<88, 37, 0>> \o cidBytes }

MaxOps == 2
NoCid ==
  [pc |-> "none", how |-> "", in |-> <<>>, heap |-> <<>>, b |-> 0, err |-> "",
   n |-> 0, held |-> {}, orig |-> <<>>, ops |-> 0, back |-> <<>>]

(***************************************************************************)
(* package rasl: what FetchWithClient is given and what the network does   *)
(***************************************************************************)
MaxHints == 3
MaxBody == 2

\* crypto/sha256 and hash.Hash: a running value that Write folds every byte
\* into, and the HashLength bytes Sum makes of it
NewHasher == [sum |-> 7]
RECURSIVE HashWrite(_, _)
HashWrite(h, p) ==
  IF p = <<>> THEN h
  ELSE HashWrite([sum |-> (h.sum * 31 + Head(p) + 1) % 256], Tail(p))
HashSum(h) == [k \in 1..HashLength |-> IF k = 1 THEN h.sum ELSE 0]
Sum256(bs) == HashSum(HashWrite(NewHasher, bs))

\* cid.HashBytes
HashBytes(bs) == <<CidVersion, CodecRaw, HashTypeSha256, HashLength>> \o Sum256(bs)

\* the bytes a body may give to one Read when it has given n already, and
\* the contents a URL may name
BodyChunks(n) ==
  UNION {[1..m -> {1, 2}] : m \in 0..(MaxBody - n)}
FetchCidInputs == {HashBytes(<<1>>), HashBytes(<<1, 2>>)}

\* what one request goroutine can send: the response and the error of
\* client.Do, or a nil response and the error of NewRequestWithContext
Refused == [resp |-> FALSE, err |-> TRUE, status |-> 0]
Outcomes ==
  { [resp |-> TRUE, err |-> FALSE, status |-> 200],
    [resp |-> TRUE, err |-> FALSE, status |-> 404],
    [resp |-> TRUE, err |-> TRUE, status |-> 302],
    Refused }

NoRead == [called |-> FALSE, bodyErr |-> "", n |-> 0, err |-> ""]
NoFetch ==
  [pc |-> "none", client |-> TRUE, numReqs |-> 0, c |-> <<>>, g |-> <<>>,
   retCh |-> <<>>, recv |-> <<>>, cancelled |-> {}, i |-> 0, body |-> 0,
   closed |-> {}, drain |-> "none", ret |-> "", served |-> <<>>,
   hasher |-> NewHasher, delivered |-> <<>>, last |-> NoRead]
(***************************************************************************)
(* package rasl: what DirectoryHandler is given                            *)
(***************************************************************************)
MaxFiles == 3
MaxWorkers == 2

\* what the walk of the directory meets: a regular file with its content, a
\* file that cannot be opened or read, a directory or special file, or an
\* error of the walk itself, which ends it
RegularFile(content) == [kind |-> "file", content |-> content]
Unreadable == [kind |-> "unreadable", content |-> <<>>]
NotRegular == [kind |-> "other", content |-> <<>>]
WalkFails == [kind |-> "walkerr", content |-> <<>>]
DirEntries ==
  {RegularFile(<<1>>), RegularFile(<<2>>), Unreadable, NotRegular, WalkFails}
DirInputs ==
  {d \in UNION {[1..n -> DirEntries] : n \in 0..MaxFiles} :
     \A x \in 1..(Len(d) - 1) : d[x].kind # "walkerr"}

\* blake3.New(cid.HashLength, nil) and its Sum: another hash than SHA-256
Blake3Sum(bs) == HashSum(HashWrite([sum |-> 11], bs))

\* the ret a worker sends for the file at path
HashFile(path, content, hashBlake3) ==
  [path |-> path, digestSha256 |-> Sum256(content),
   digestBlake3 |-> IF hashBlake3 THEN Blake3Sum(content) ELSE <<>>]

\* cidPaths[key] = path, cidPaths being a set of pairs <<key, path>>
Put(cidPaths, key, path) ==
  {e \in cidPaths : e[1] # key} \cup {<<key, path>>}

\* the collector's case r := <-retCh
StoreSha256(cidPaths, r, hashBlake3) ==
  Put(cidPaths,
      String(NewCidFromInfo(CodecRaw, HashTypeSha256, r.digestSha256).b), r.path)
Store(cidPaths, r, hashBlake3) ==
  IF hashBlake3
  THEN Put(StoreSha256(cidPaths, r, hashBlake3),
           String(NewCidFromInfo(CodecRaw, HashTypeBlake3, r.digestBlake3).b), r.path)
  ELSE StoreSha256(cidPaths, r, hashBlake3)

\* wg.Wait() returns: every worker has returned
NoWait(workers) == TRUE
AllDone(workers) == \A w \in DOMAIN workers : workers[w].pc = "done"

Waiting == [pc |-> "select", path |-> 0]
NoWalk ==
  [pc |-> "none", ret |-> "", dir |-> <<>>, hashBlake3 |-> FALSE,
   workers |-> <<>>, walker |-> [pc |-> "walk", next |-> 1], closed |-> FALSE,
   cancelled |-> FALSE, signal |-> "wait", cidPaths |-> {}]

(***************************************************************************)
(* package masl: documents.  A Document is a record of the fields Valid    *)
(* reads and of a few more of each kind (a CID, a text, a list, the map of *)
(* unknown keys); texts are sequences of bytes                             *)
(***************************************************************************)
MaxResources == 2

KeySrc == <<115, 114, 99>>
KeyName == <<110, 97, 109, 101>>
KeySourcemap == <<115, 111, 117, 114, 99, 101, 109, 97, 112>>
KeySpeculationRules ==
  <<115, 112, 101, 99, 117, 108, 97, 116, 105, 111, 110, 45, 114, 117, 108, 101, 115>>
KeyIcons == <<105, 99, 111, 110, 115>>
KeyScreenshots == <<115, 99, 114, 101, 101, 110, 115, 104, 111, 116, 115>>
KeySizes == <<115, 105, 122, 101, 115>>
KeyResources == <<114, 101, 115, 111, 117, 114, 99, 101, 115>>
KeyVersion == <<118, 101, 114, 115, 105, 111, 110>>
KeyType == <<36, 116, 121, 112, 101>>
TypeMasl == <<105, 110, 103, 46, 100, 97, 115, 108, 46, 109, 97, 115, 108>>
Slash == <<47>>
PathA == <<47, 97>>
PathX == <<47, 120>>

\* masl.Icon and masl.Screenshot
Icon(src, sizes) == [Src |-> src, Sizes |-> sizes]
\* masl.Resource; a nil *Resource has nil set
NilResource ==
  [nil |-> TRUE, Src |-> <<>>, Name |-> <<>>, Sourcemap |-> <<>>,
   SpeculationRules |-> <<>>, Icons |-> <<>>, Screenshots |-> <<>>,
   Attributes |-> {}]
ZeroResource == [NilResource EXCEPT !.nil = FALSE]
\* a map[string]*Resource, nil or not
NilResources == [nil |-> TRUE, m |-> <<>>]
ResourcesOf(f) == [nil |-> FALSE, m |-> f]
\* masl.Document
ZeroDocument ==
  [Resource |-> ZeroResource, Resources |-> NilResources, Version |-> 0,
   Type |-> <<>>]

\* strings.HasPrefix
HasPrefix(s, prefix) ==
  Len(s) >= Len(prefix) /\ SubSeq(s, 1, Len(prefix)) = prefix

\* Cid.Defined
Defined(c) == c # <<>>

\* Document.IsBundle
IsBundle(d) == ~d.Resources.nil

\* _, exists := d.Resources[path]
Exists(d, path) == path \in DOMAIN d.Resources.m

\* Document.validateResourceReferences
NoReferences(d, resource) == TRUE
validateResourceReferences(d, resource) ==
  IF resource.Sourcemap # <<>> /\ ~Exists(d, resource.Sourcemap) THEN FALSE
  ELSE IF resource.SpeculationRules # <<>> /\ ~Exists(d, resource.SpeculationRules)
  THEN FALSE
  ELSE TRUE

\* Document.validateAppManifestReferences
validateAppManifestReferences(d) ==
  IF \E x \in DOMAIN d.Resource.Icons :
       d.Resource.Icons[x].Src # <<>> /\ ~Exists(d, d.Resource.Icons[x].Src)
  THEN FALSE
  ELSE IF \E x \in DOMAIN d.Resource.Screenshots :
       d.Resource.Screenshots[x].Src # <<>>
         /\ ~Exists(d, d.Resource.Screenshots[x].Src)
  THEN FALSE
  ELSE TRUE

\* Document.validateSingle
validateSingle(d) ==
  IF \E x \in DOMAIN d.Resource.Icons : d.Resource.Icons[x].Src # <<>> THEN FALSE
  ELSE IF \E x \in DOMAIN d.Resource.Screenshots : d.Resource.Screenshots[x].Src # <<>>
  THEN FALSE
  ELSE TRUE

\* Document.validateBundle, the runtime iterating the map in the order of
\* paths: "true", "false", or "panic" where a nil *Resource is dereferenced
RECURSIVE validateBundle(_, _)
validateBundle(d, paths) ==
  IF paths = <<>>
  THEN IF validateAppManifestReferences(d) THEN "true" ELSE "false"
  ELSE LET path == Head(paths)
           resource == d.Resources.m[path]
       IN IF path = <<>> \/ ~HasPrefix(path, Slash) THEN "false"
          ELSE IF resource.nil THEN "panic"
          ELSE IF ~Defined(resource.Src) THEN "false"
          ELSE IF ~validateResourceReferences(d, resource) THEN "false"
          ELSE validateBundle(d, Tail(paths))

\* Document.Valid
Valid(d, paths) ==
  IF d.Version # 0 /\ d.Version # 1 THEN "false"
  ELSE IF d.Type # <<>> /\ d.Type # TypeMasl THEN "false"
  ELSE IF IsBundle(d) THEN validateBundle(d, paths)
  ELSE IF validateSingle(d) THEN "true" ELSE "false"

\* the orders in which the runtime may iterate d.Resources
Orders(d) ==
  LET K == DOMAIN d.Resources.m
  IN {o \in [1..Cardinality(K) -> K] : \A x, y \in 1..Cardinality(K) : x # y => o[x] # o[y]}

\* the documents a caller may build: resources under up to MaxResources of
\* four paths, each nil, without a Src, plain, or referring to a path; and a
\* document with a version, a type, icons, screenshots and a sourcemap
GoodResource == [ZeroResource EXCEPT !.Src = ShortCid]
ResourceInputs ==
  {NilResource, ZeroResource, GoodResource,
   [GoodResource EXCEPT !.Sourcemap = PathA],
   [GoodResource EXCEPT !.SpeculationRules = PathX],
   [GoodResource EXCEPT !.Icons = <<Icon(PathX, <<>>)>>]}
PathInputs == {<<>>, Slash, PathA, <<97>>}
ResourcesInputs ==
  {NilResources} \cup
  UNION {{ResourcesOf(f) : f \in [K -> ResourceInputs]} :
           K \in {J \in SUBSET PathInputs : Cardinality(J) <= MaxResources}}
DocumentInputs ==
  {[Resource |-> [ZeroResource EXCEPT !.Icons = icons, !.Screenshots = shots,
                                      !.Sourcemap = sourcemap],
    Resources |-> resources, Version |-> version, Type |-> type] :
     icons \in {<<>>, <<Icon(<<>>, <<49>>)>>, <<Icon(PathA, <<>>)>>},
     shots \in {<<>>, <<Icon(PathX, <<>>)>>},
     sourcemap \in {<<>>, PathX},
     resources \in ResourcesInputs,
     version \in {0, 1, 2},
     type \in {<<>>, TypeMasl, <<120>>}}

\* the keys of the fields of Icon and Screenshot, of Resource, and of
\* Document, which embeds Resource
IconFields == {KeySrc, KeySizes}
ResourceFields ==
  {KeySrc, KeyName, KeySourcemap, KeySpeculationRules, KeyIcons, KeyScreenshots}
DocumentFields == ResourceFields \cup {KeyResources, KeyVersion, KeyType}

\* the field of a record that a key of the input binds to: the field of that
\* name, else a field that differs from it in letter case only, else none
MatchKey(key, fields) ==
  IF key \in fields THEN key
  ELSE IF \E f \in fields : ToLower(f) = ToLower(key)
  THEN CHOOSE f \in fields : ToLower(f) = ToLower(key)
  ELSE <<>>

\* the value the map x gives to field f, NilV if none, and whether two of its
\* keys bind to one field
FieldValue(x, fields, f) ==
  LET hits == {q \in x.m : MatchKey(q[1], fields) = f}
  IN IF hits = {} THEN NilV ELSE (CHOOSE q \in hits : TRUE)[2]
TwoKeysOneField(x, fields) ==
  \E q, r \in x.m :
    q # r /\ MatchKey(q[1], fields) # <<>>
      /\ MatchKey(q[1], fields) = MatchKey(r[1], fields)

\* the pairs of x whose keys bind to no field: what the `unknown` field gets
NoUnknown(x, fields) == {}
Unknown(x, fields) == {q \in x.m : MatchKey(q[1], fields) = <<>>}

\* a decoded value stored into a field of a Go type
TextOf(x) == IF x.k = "text" THEN x.b ELSE <<>>
CidOf(x) == IF x.k = "cid" THEN x.b ELSE <<>>
IntOf(x) ==
  IF x.k # "int" \/ x.b = <<>> THEN 0
  ELSE IF x.neg THEN 0 - x.b[Len(x.b)] ELSE x.b[Len(x.b)]
IconOf(x) ==
  Icon(TextOf(FieldValue(x, IconFields, KeySrc)),
       TextOf(FieldValue(x, IconFields, KeySizes)))
IconsOf(x) ==
  IF x.k = "array" THEN [i \in DOMAIN x.a |-> IconOf(x.a[i])] ELSE <<>>
ResourceOf(x, fields) ==
  [nil |-> FALSE,
   Src |-> CidOf(FieldValue(x, fields, KeySrc)),
   Name |-> TextOf(FieldValue(x, fields, KeyName)),
   Sourcemap |-> TextOf(FieldValue(x, fields, KeySourcemap)),
   SpeculationRules |-> TextOf(FieldValue(x, fields, KeySpeculationRules)),
   Icons |-> IconsOf(FieldValue(x, fields, KeyIcons)),
   Screenshots |-> IconsOf(FieldValue(x, fields, KeyScreenshots)),
   Attributes |-> Unknown(x, fields)]
ResourcesFrom(x) ==
  IF x.k # "map" THEN NilResources
  ELSE ResourcesOf([path \in {q[1] : q \in x.m} |->
                      LET r == (CHOOSE q \in x.m : q[1] = path)[2]
                      IN IF r.k = "nil" THEN NilResource
                         ELSE ResourceOf(r, ResourceFields)])
DocumentOf(x) ==
  [Resource |-> ResourceOf(x, DocumentFields),
   Resources |-> ResourcesFrom(FieldValue(x, DocumentFields, KeyResources)),
   Version |-> IntOf(FieldValue(x, DocumentFields, KeyVersion)),
   Type |-> TextOf(FieldValue(x, DocumentFields, KeyType))]

\* what makes the decoding of the map x into a record fail: two keys for one
\* field, or a value of a kind the field's type does not take
KindsOk(x, fields) ==
  /\ ~TwoKeysOneField(x, fields)
  /\ \A f \in fields \cap {KeyName, KeySourcemap, KeySpeculationRules, KeySizes, KeyType} :
       FieldValue(x, fields, f).k \in {"text", "nil"}
  /\ KeySrc \in fields =>
       FieldValue(x, fields, KeySrc).k
         \in (IF fields = IconFields THEN {"text", "nil"} ELSE {"cid", "nil"})
  /\ KeyVersion \in fields => FieldValue(x, fields, KeyVersion).k \in {"int", "nil"}
  /\ \A f \in fields \cap {KeyIcons, KeyScreenshots} :
       LET l == FieldValue(x, fields, f)
       IN /\ l.k \in {"array", "nil"}
          /\ \A i \in DOMAIN l.a :
               /\ l.a[i].k = "map"
               /\ ~TwoKeysOneField(l.a[i], IconFields)
               /\ FieldValue(l.a[i], IconFields, KeySrc).k \in {"text", "nil"}
               /\ FieldValue(l.a[i], IconFields, KeySizes).k \in {"text", "nil"}
DocumentKindsOk(x) ==
  /\ x.k = "map"
  /\ KindsOk(x, DocumentFields)
  /\ LET rs == FieldValue(x, DocumentFields, KeyResources)
     IN /\ rs.k \in {"map", "nil"}
        /\ \A q \in rs.m :
             q[2].k = "nil" \/ (q[2].k = "map" /\ KindsOk(q[2], ResourceFields))

\* drisl.Unmarshal(data, &doc) for the Document doc: [err, doc]
UnmarshalDocumentFrom(r) ==
  IF r.err # "" THEN [err |-> r.err, doc |-> ZeroDocument]
  ELSE IF ~DocumentKindsOk(r.v) THEN [err |-> "UnmarshalType", doc |-> ZeroDocument]
  ELSE [err |-> "", doc |-> DocumentOf(r.v)]

\* a record as the encoder sees it: the fields its tags do not leave out
\* (omitempty, omitzero), in the order of their declaration, and the pairs of
\* the `unknown` field
Opt(cond, key, x) == IF cond THEN <<FieldV(key, x)>> ELSE <<>>
IconV(i) ==
  StructV(<<FieldV(KeySrc, TextV(i.Src))>>
            \o Opt(i.Sizes # <<>>, KeySizes, TextV(i.Sizes)), {})
IconsV(list) == ArrV([i \in DOMAIN list |-> IconV(list[i])])
ResourceFieldsV(r) ==
  Opt(Defined(r.Src), KeySrc, CidV(r.Src))
    \o Opt(r.Name # <<>>, KeyName, TextV(r.Name))
    \o Opt(r.Sourcemap # <<>>, KeySourcemap, TextV(r.Sourcemap))
    \o Opt(r.SpeculationRules # <<>>, KeySpeculationRules, TextV(r.SpeculationRules))
    \o Opt(r.Icons # <<>>, KeyIcons, IconsV(r.Icons))
    \o Opt(r.Screenshots # <<>>, KeyScreenshots, IconsV(r.Screenshots))
ResourceV(r) ==
  IF r.nil THEN NilV ELSE StructV(ResourceFieldsV(r), r.Attributes)
ResourcesV(rs) ==
  MapV({<<path, ResourceV(rs.m[path])>> : path \in DOMAIN rs.m})
VersionV(n) ==
  IntV("int64", n < 0, IF n = 0 THEN <<>> ELSE IF n < 0 THEN <<0 - n>> ELSE <<n>>)
DocumentV(d) ==
  StructV(ResourceFieldsV(d.Resource)
            \o Opt(~d.Resources.nil /\ DOMAIN d.Resources.m # {}, KeyResources,
                   ResourcesV(d.Resources))
            \o Opt(d.Version # 0, KeyVersion, VersionV(d.Version))
            \o Opt(d.Type # <<>>, KeyType, TextV(d.Type)),
          d.Resource.Attributes)

\* two of the orders in which the runtime may iterate the maps in x: one
\* and its reverse
RECURSIVE Counted(_, _, _)
Counted(K, n, step) ==
  IF K = {} THEN <<>>
  ELSE LET key == CHOOSE key \in K : TRUE
       IN (key :> n) @@ Counted(K \ {key}, n + step, step)
TwoRanks(x) ==
  {Counted(KeysIn(x), 1, 1), Counted(KeysIn(x), Cardinality(KeysIn(x)), 0 - 1)}

\* the maps a sender may encode: each key absent or with one of a few values
KeyZz == <<122, 122>>
KeyNameUpper == <<78, 97, 109, 101>>
Pairs(key, values) == {{}} \cup {{<<key, x>>} : x \in values}
WireIcons ==
  {ArrV(<<>>),
   ArrV(<<MapV({<<KeySrc, TextV(PathA)>>})>>),
   ArrV(<<MapV({<<KeySizes, TextV(<<49>>)>>})>>),
   ArrV(<<MapV({<<KeySrc, TextV(<<>>)>>, <<KeyZz, One>>})>>)}
WireResources ==
  {MapV({}),
   MapV({<<PathA, MapV({<<KeySrc, CidV(ShortCid)>>, <<KeyZz, One>>})>>}),
   MapV({<<PathA, NilV>>}),
   MapV({<<PathA, MapV({<<KeyName, TextV(<<>>)>>})>>})}
WireDocuments ==
  {MapV(a \cup b \cup c \cup e \cup f \cup g \cup h) :
     a \in Pairs(KeyName, {TextV(<<120>>), TextV(<<>>)}),
     b \in Pairs(KeyNameUpper, {TextV(<<121>>)}),
     c \in Pairs(KeyVersion, {One, ZeroInt}),
     e \in Pairs(KeyZz, {One}),
     f \in Pairs(KeyIcons, WireIcons),
     g \in Pairs(KeyResources, WireResources),
     h \in Pairs(KeySrc, {CidV(ShortCid)})}

NoMasl ==
  [pc |-> "none", doc |-> ZeroDocument, ret |-> "", wire |-> NilV,
   data |-> <<>>, err |-> "", out |-> <<>>]

(***************************************************************************)
(* The program: calls of Unmarshal and Marshal, and two callers that       *)
(* share one encoding mode                                                 *)
(***************************************************************************)
VARIABLES
  pc,       \* "idle", or what has been done since the program was idle
  data,     \* the bytes given to Unmarshal
  opts,     \* its decoding options
  target,   \* the kind of its target
  old,      \* what the target held before the call
  v,        \* what the target holds after it
  err,      \* the error Unmarshal returned, "" for none
  val,      \* the value given to Marshal
  eopts,    \* its encoding options
  out,      \* the bytes Marshal returned
  merr,     \* the error Marshal returned, "" for none
  callers,  \* the concurrent calls of Marshal(val) on one shared mode
  stream,   \* an Encoder's sink and the Decoder that reads it back
  cid,      \* a Cid the caller constructed, and the slices the caller holds
  fetch,    \* one call of URL.FetchWithClient and the reader it returned
  walk,     \* one call of DirectoryHandler and its goroutines
  masl      \* a MASL document the caller validates, decodes and encodes

vars == <<pc, data, opts, target, old, v, err, val, eopts, out, merr, callers, stream, cid, fetch, walk, masl>>

Callers == {1, 2}
IdleCaller == [pc |-> "off", todo |-> {}, buf |-> <<>>, err |-> "", out |-> <<>>]

Init ==
  /\ pc = "idle"
  /\ data = <<>>
  /\ opts = DefaultDecOptions
  /\ target = "any"
  /\ old = NilV
  /\ v = NilV
  /\ err = ""
  /\ val = NilV
  /\ eopts = DefaultEncOptions
  /\ out = <<>>
  /\ merr = ""
  /\ callers = [c \in Callers |-> IdleCaller]
  /\ stream = NoStream
  /\ cid = NoCid
  /\ fetch = NoFetch
  /\ walk = NoWalk
  /\ masl = NoMasl

\* drisl.Unmarshal / DecMode.Unmarshal
UnmarshalData ==
  /\ pc = "idle"
  /\ \E c \in UnmarshalCalls :
       \E r \in {Unmarshal(c[1], c[3], c[2], OldValue(c[2]))} :
       /\ data' = c[1]
       /\ target' = c[2]
       /\ opts' = c[3]
       /\ old' = OldValue(c[2])
       /\ v' = r.v
       /\ err' = r.err
  /\ pc' = "decoded"
  /\ UNCHANGED <<val, eopts, out, merr, callers, stream, cid, fetch, walk, masl>>

\* drisl.Marshal of the value just decoded
MarshalDecoded ==
  /\ pc = "decoded"
  /\ err = ""
  /\ target # "time"
  /\ \E rank \in Ranks(v) :
       \E r \in {Marshal(v, DefaultEncOptions, rank)} :
       /\ out' = r.out
       /\ merr' = r.err
  /\ val' = v
  /\ eopts' = DefaultEncOptions
  /\ pc' = "reencoded"
  /\ UNCHANGED <<data, opts, target, old, v, err, callers, stream, cid, fetch, walk, masl>>

\* drisl.Marshal / EncMode.Marshal
MarshalValue ==
  /\ pc = "idle"
  /\ \E x \in GoValues, eo \in EncOptionsSet : \E rank \in Ranks(x) :
       \E r \in {Marshal(x, eo, rank)} :
       /\ val' = x
       /\ eopts' = eo
       /\ out' = r.out
       /\ merr' = r.err
  /\ pc' = "encoded"
  /\ UNCHANGED <<data, opts, target, old, v, err, callers, stream, cid, fetch, walk, masl>>

\* drisl.Unmarshal of the bytes just encoded, into an open target
UnmarshalEncoded ==
  /\ pc = "encoded"
  /\ merr = ""
  /\ \E r \in {Unmarshal(out, DefaultDecOptions, "any", OldValue("any"))} :
       /\ v' = r.v
       /\ err' = r.err
  /\ data' = out
  /\ opts' = DefaultDecOptions
  /\ target' = "any"
  /\ old' = OldValue("any")
  /\ pc' = "redecoded"
  /\ UNCHANGED <<val, eopts, out, merr, callers, stream, cid, fetch, walk, masl>>

\* a map or struct is handed to two goroutines that share one EncMode
Share ==
  /\ pc = "idle"
  /\ \E x \in GoMaps \cup GoStructs, eo \in EncOptionsSet :
       /\ Cardinality(x.m) + Len(x.a) <= MaxShared
       /\ val' = x
       /\ eopts' = eo
  /\ callers' = [c \in Callers |-> [IdleCaller EXCEPT !.pc = "ready"]]
  /\ pc' = "shared"
  /\ UNCHANGED <<data, opts, target, old, v, err, out, merr, stream, cid, fetch, walk, masl>>

\* caller c enters Marshal: a struct's declared fields are encoded first, in
\* declaration order, into the call's own buffer
CallerBegin(c) ==
  /\ pc = "shared"
  /\ callers[c].pc = "ready"
  /\ \E rank \in Ranks(ArrV(val.a)) :
       \E r \in {EncPairs(FieldPairs(val.a), EncMode(eopts), rank)} :
       callers' = [callers EXCEPT ![c] =
         IF r.ok THEN [pc |-> "running", todo |-> val.m, buf |-> r.out,
                       err |-> "", out |-> <<>>]
         ELSE [pc |-> "done", todo |-> {}, buf |-> <<>>, err |-> r.err, out |-> <<>>]]
  /\ UNCHANGED <<pc, data, opts, target, old, v, err, val, eopts, out, merr, stream, cid, fetch, walk, masl>>

\* caller c encodes the pair its map iteration yields next
CallerStep(c) ==
  /\ pc = "shared"
  /\ callers[c].pc = "running"
  /\ \E p \in callers[c].todo : \E rank \in Ranks(p[2]) :
       \E r \in {EncPairs(<<p>>, EncMode(eopts), rank)} :
       callers' = [callers EXCEPT ![c] =
         IF r.ok THEN [@ EXCEPT !.todo = @ \ {p}, !.buf = @ \o r.out]
         ELSE [pc |-> "done", todo |-> {}, buf |-> <<>>, err |-> r.err, out |-> <<>>]]
  /\ UNCHANGED <<pc, data, opts, target, old, v, err, val, eopts, out, merr, stream, cid, fetch, walk, masl>>

\* caller c has encoded every pair: the pairs are put in wire order behind
\* the map's head and the bytes are returned
CallerFinish(c) ==
  /\ pc = "shared"
  /\ callers[c].pc = "running"
  /\ callers[c].todo = {}
  /\ callers' = [callers EXCEPT ![c] =
       [@ EXCEPT !.pc = "done",
                 !.out = EncodeHead(5, NatArg(Len(callers[c].buf)))
                           \o ConcatPairs(OrderPairs(callers[c].buf, EncMode(eopts)))]]
  /\ UNCHANGED <<pc, data, opts, target, old, v, err, val, eopts, out, merr, stream, cid, fetch, walk, masl>>

\* the program is idle again
Return ==
  /\ \/ pc \in {"decoded", "reencoded", "encoded", "redecoded", "nested"}
     \/ pc = "shared" /\ \A c \in Callers : callers[c].pc = "done"
  /\ pc' = "idle"
  /\ data' = <<>>
  /\ opts' = DefaultDecOptions
  /\ target' = "any"
  /\ old' = NilV
  /\ v' = NilV
  /\ err' = ""
  /\ val' = NilV
  /\ eopts' = DefaultEncOptions
  /\ out' = <<>>
  /\ merr' = ""
  /\ callers' = [c \in Callers |-> IdleCaller]
  /\ UNCHANGED <<stream, cid, fetch, walk, masl>>

Next ==
  \/ UnmarshalData
  \/ MarshalDecoded
  \/ MarshalValue
  \/ UnmarshalEncoded
  \/ Share
  \/ \E c \in Callers : CallerBegin(c)
  \/ \E c \in Callers : CallerStep(c)
  \/ \E c \in Callers : CallerFinish(c)
  \/ Return

Spec == Init /\ [][Next]_vars

(***************************************************************************)
(* The program that decodes nested inputs under a cap of its choice        *)
(***************************************************************************)
\* DecOptions{MaxNestedLevels: cap}.DecMode() and its Unmarshal(data, &v)
UnmarshalNested ==
  /\ pc = "idle"
  /\ \E d \in NestedData, cap \in NestingCaps :
       \E o \in {[DefaultDecOptions EXCEPT !.MaxNestedLevels = cap]} :
       \E r \in {Unmarshal(d, o, "any", OldValue("any"))} :
       /\ data' = d
       /\ opts' = o
       /\ v' = r.v
       /\ err' = r.err
  /\ target' = "any"
  /\ old' = OldValue("any")
  /\ pc' = "nested"
  /\ UNCHANGED <<val, eopts, out, merr, callers, stream, cid, fetch, walk, masl>>

NestNext ==
  \/ UnmarshalNested
  \/ Return

NestSpec == Init /\ [][NestNext]_vars

(***************************************************************************)
(* The program that writes a stream and reads it back                      *)
(***************************************************************************)
codec == <<pc, data, opts, target, old, v, err, val, eopts, out, merr, callers>>

\* Encoder.Encode(x): the item is appended to the sink
EncodeToStream ==
  /\ stream.pc \in {"off", "writing"}
  /\ Len(stream.parts) < MaxStream
  /\ \E x \in StreamValues : \E rank \in Ranks(x) :
       \E r \in {Marshal(x, DefaultEncOptions, rank)} :
         /\ r.err = ""
         /\ stream' = [stream EXCEPT !.pc = "writing",
                                      !.vals = Append(@, x),
                                      !.parts = Append(@, r.out)]
  /\ UNCHANGED <<codec, cid, fetch, walk, masl>>

\* drisl.NewDecoder(r): r yields what was written, or stops short of it
NewDecoder ==
  /\ stream.pc \in {"off", "writing"}
  /\ \E n \in 0..Len(Concat(stream.parts)) :
       stream' = [stream EXCEPT !.pc = "reading",
                                !.src = SubSeq(Concat(stream.parts), 1, n)]
  /\ UNCHANGED <<codec, cid, fetch, walk, masl>>

\* Decoder.Decode(&v); a Decoder that returned an error is not used again,
\* one that returned io.EOF returns it again
DecodeFromStream ==
  /\ stream.pc = "reading"
  /\ stream.res \in {"", "EOF"}
  /\ stream.calls <= MaxStream + 1
  /\ \E r \in {Decode(SubSeq(stream.src, stream.off + 1, Len(stream.src)),
                       DefaultDecOptions)} :
       stream' = [stream EXCEPT !.res = r.err,
                                !.calls = @ + 1,
                                !.off = @ + r.n,
                                !.got = IF r.err = "" THEN Append(@, r.v) ELSE @]
  /\ UNCHANGED <<codec, cid, fetch, walk, masl>>

\* the caller is done with the Decoder
CloseStream ==
  /\ stream.pc = "reading"
  /\ stream.res # ""
  /\ stream' = NoStream
  /\ UNCHANGED <<codec, cid, fetch, walk, masl>>

StreamNext ==
  \/ EncodeToStream
  \/ NewDecoder
  \/ DecodeFromStream
  \/ CloseStream

StreamSpec == Init /\ [][StreamNext]_vars

(***************************************************************************)
(* The program that constructs a Cid, calls its methods and writes to the  *)
(* slices it gave and got                                                   *)
(***************************************************************************)
\* the state after a constructor returned r; h holds the caller's slices
\* and c is h with the array of the new Cid
Constructed(how, in, r, h, c) ==
  [pc |-> IF r.err = "" THEN "made" ELSE "failed",
   how |-> how, in |-> in,
   heap |-> IF r.err = "" THEN c.heap ELSE h,
   b |-> IF r.err = "" THEN c.ref ELSE 0,
   err |-> r.err, n |-> r.n, held |-> 1..Len(h), orig |-> r.b, ops |-> 0,
   back |-> <<>>]

\* c, err := cid.NewCidFromBytes(in)
FromBytes ==
  /\ cid.pc = "none"
  /\ \E in \in CidByteInputs :
       cid' = Constructed("bytes", in, NewCidFromBytes(in), <<in>>, CopyBytes(<<in>>, 1))
  /\ UNCHANGED <<codec, stream, fetch, walk, masl>>

\* c, err := cid.NewCidFromReader(bytes.NewReader(in))
FromReader ==
  /\ cid.pc = "none"
  /\ \E in \in CidReaderInputs : \E r \in {NewCidFromReader(in)} :
       cid' = Constructed("reader", in, r, <<>>, Alloc(<<>>, r.b))
  /\ UNCHANGED <<codec, stream, fetch, walk, masl>>

\* c, err := cid.NewCidFromString(in)
FromString ==
  /\ cid.pc = "none"
  /\ \E in \in CidStringInputs : \E r \in {NewCidFromString(in)} :
       cid' = Constructed("string", in, r, <<>>, Alloc(<<>>, r.b))
  /\ UNCHANGED <<codec, stream, fetch, walk, masl>>

\* c, err := cid.NewCidFromInfo(codec, hashType, digest)
FromInfo ==
  /\ cid.pc = "none"
  /\ \E c \in {CodecRaw, CodecDrisl, 0}, h \in {HashTypeSha256, HashTypeBlake3, 19},
        digest \in CidDigestInputs :
       \E r \in {NewCidFromInfo(c, h, digest)} :
         cid' = Constructed("info", <<c, h>> \o digest, r,
                            <<digest>>, Alloc(<<digest>>, r.b))
  /\ UNCHANGED <<codec, stream, fetch, walk, masl>>

\* err := c.UnmarshalCBOR(in)
FromCBOR ==
  /\ cid.pc = "none"
  /\ \E in \in CidCBORInputs : \E r \in {CidUnmarshalCBOR(in)} :
       cid' = Constructed("cbor", in,
                          CidResult(IF r.ok THEN "" ELSE r.err, r.v.b, 0),
                          <<in, r.v.b>>, CopyBytes(<<in, r.v.b>>, 2))
  /\ UNCHANGED <<codec, stream, fetch, walk, masl>>

\* the caller now holds the slice that a method returned
Got(c) == [cid EXCEPT !.heap = c.heap, !.held = @ \cup {c.ref}, !.ops = @ + 1]

\* b := c.Bytes()
GetBytes ==
  /\ cid.pc = "made" /\ cid.ops < MaxOps
  /\ cid' = Got(Bytes(cid.heap, cid.b))
  /\ UNCHANGED <<codec, stream, fetch, walk, masl>>

\* b, _ := c.MarshalBinary()
GetMarshalBinary ==
  /\ cid.pc = "made" /\ cid.ops < MaxOps
  /\ cid' = Got(Bytes(cid.heap, cid.b))
  /\ UNCHANGED <<codec, stream, fetch, walk, masl>>

\* d := c.Digest()
GetDigest ==
  /\ cid.pc = "made" /\ cid.ops < MaxOps
  /\ cid' = Got(Alloc(cid.heap, Digest(cid.heap[cid.b])))
  /\ UNCHANGED <<codec, stream, fetch, walk, masl>>

\* b, _ := c.AppendBinary(s), s being nil or a slice the caller holds; with
\* room behind s the bytes are written to the array of s
GetAppendBinary ==
  /\ cid.pc = "made" /\ cid.ops < MaxOps
  /\ \/ cid' = Got(Alloc(cid.heap, cid.heap[cid.b]))
     \/ \E s \in cid.held :
          \/ cid' = Got(Alloc(cid.heap, cid.heap[s] \o cid.heap[cid.b]))
          \/ cid' = Got([heap |-> [cid.heap EXCEPT ![s] = @ \o cid.heap[cid.b]],
                         ref |-> s])
  /\ UNCHANGED <<codec, stream, fetch, walk, masl>>

\* b, _ := c.MarshalCBOR()
GetMarshalCBOR ==
  /\ cid.pc = "made" /\ cid.ops < MaxOps
  /\ cid' = Got(Alloc(cid.heap, CidMarshalCBOR(cid.heap[cid.b])))
  /\ UNCHANGED <<codec, stream, fetch, walk, masl>>

\* s[i]++ on the first or the last byte of a slice the caller holds
Mutate ==
  /\ cid.pc = "made" /\ cid.ops < MaxOps
  /\ \E s \in cid.held : \E i \in {1, Len(cid.heap[s])} :
       /\ i >= 1
       /\ cid' = [cid EXCEPT !.heap[s][i] = (@ + 1) % 256, !.ops = @ + 1]
  /\ UNCHANGED <<codec, stream, fetch, walk, masl>>

\* cid.NewCidFromString(c.String()) and cid.NewCidFromBytes(c.Bytes())
ParseBack ==
  /\ cid.pc = "made" /\ cid.back = <<>>
  /\ cid' = [cid EXCEPT !.back = <<NewCidFromString(String(cid.heap[cid.b])),
                                   NewCidFromBytes(cid.heap[cid.b])>>]
  /\ UNCHANGED <<codec, stream, fetch, walk, masl>>

\* the caller lets go of the Cid and of the slices
Forget ==
  /\ cid.pc \in {"made", "failed"}
  /\ cid' = NoCid
  /\ UNCHANGED <<codec, stream, fetch, walk, masl>>

CidNext ==
  \/ FromBytes
  \/ FromReader
  \/ FromString
  \/ FromInfo
  \/ FromCBOR
  \/ GetBytes
  \/ GetMarshalBinary
  \/ GetDigest
  \/ GetAppendBinary
  \/ GetMarshalCBOR
  \/ Mutate
  \/ ParseBack
  \/ Forget

CidSpec == Init /\ [][CidNext]_vars

(***************************************************************************)
(* Properties                                                              *)
(***************************************************************************)
\* C1: every byte string that Unmarshal accepts into an open target under the
\* default options is given back, byte for byte and without error, by Marshal
\* of the decoded value.
DecodeEncodeRoundTrip ==
  (pc = "reencoded" /\ target = "any" /\ opts = DefaultDecOptions)
    => (merr = "" /\ out = data)

\* C1 happens: a map of two pairs or more, nested values included, was
\* decoded into an open target and encoded again
DecodeEncodeRoundTripWitness ==
  /\ pc = "reencoded"
  /\ target = "any"
  /\ opts = DefaultDecOptions
  /\ v.k = "map"
  /\ Cardinality(v.m) >= 2
  /\ \E p \in v.m : p[2].k = "map"
  /\ out = data

\* the values the encode/decode round trip is about: nil, booleans, strings,
\* integers, floats, CIDs, and sequences and string-keyed maps of these
RECURSIVE Plain(_)
Plain(x) ==
  CASE x.k \in {"nil", "bool", "int", "float", "bytes", "text", "cid"} -> TRUE
    [] x.k = "array" -> \A i \in 1..Len(x.a) : Plain(x.a[i])
    [] x.k = "map" -> \A p \in x.m : Plain(p[2])
    [] OTHER -> FALSE

\* equality of a Go value and a decoded value up to the width of integers
\* and floats
RECURSIVE Equiv(_, _)
Equiv(x, y) ==
  /\ x.k = y.k
  /\ CASE x.k = "int" -> x.neg = y.neg /\ x.b = y.b
        [] x.k = "float" -> Float64Bits(x) = Float64Bits(y)
        [] x.k = "array" ->
             /\ Len(x.a) = Len(y.a)
             /\ \A i \in 1..Len(x.a) : Equiv(x.a[i], y.a[i])
        [] x.k = "map" ->
             /\ {p[1] : p \in x.m} = {q[1] : q \in y.m}
             /\ Cardinality(x.m) = Cardinality(y.m)
             /\ \A p \in x.m : \A q \in y.m : p[1] = q[1] => Equiv(p[2], q[2])
        [] OTHER -> x.b = y.b

\* C2: when Marshal accepts a value built of nil, booleans, strings, integers,
\* floats, CIDs, sequences and string-keyed maps, Unmarshal of the bytes into
\* an open target fails only on a size cap, and otherwise yields a value equal
\* to the one encoded up to the width of its integers and floats.
EncodeDecodeRoundTrip ==
  (pc = "redecoded" /\ Plain(val))
    => /\ err \in {"", "MaxNested", "MaxArray", "MaxMap"}
       /\ err = "" => Equiv(val, v)

\* C2 happens: a slice of a float32 and a CID came back from the round trip,
\* the float widened
EncodeDecodeRoundTripWitness ==
  /\ pc = "redecoded"
  /\ err = ""
  /\ val.k = "array"
  /\ Len(val.a) = 2
  /\ val.a[1].t = "float32"
  /\ val.a[2].k = "cid"
  /\ v # val
  /\ Equiv(val, v)

\* C3: the bytes Marshal returns for an accepted value under given options
\* do not depend on the order in which Go iterates the value's maps, and two
\* callers that share one encoding mode, interleaved in any way, return the
\* same bytes, which are those of a call on its own.
EncodeDeterminism ==
  /\ (pc = "encoded" /\ merr = "")
       => \A rank \in Ranks(val) :
            Marshal(val, eopts, rank) = [ok |-> TRUE, err |-> "", out |-> out]
  /\ (pc = "shared" /\ \A c \in Callers : callers[c].pc = "done")
       => /\ \A c, d \in Callers :
               /\ callers[c].err = "" <=> callers[d].err = ""
               /\ callers[c].out = callers[d].out
          /\ \A c \in Callers : \A rank \in Ranks(val) :
               callers[c].err = ""
                 => Marshal(val, eopts, rank) =
                      [ok |-> TRUE, err |-> "", out |-> callers[c].out]

\* C3 happens: two callers encoded the pairs of one map in different orders
\* and returned the same bytes
EncodeDeterminismWitness ==
  /\ pc = "shared"
  /\ \A c \in Callers : callers[c].pc = "done" /\ callers[c].err = ""
  /\ Len(callers[1].buf) >= 2
  /\ callers[1].buf # callers[2].buf
  /\ callers[1].out = callers[2].out
  /\ callers[1].out # <<>>

\* reading options that refuse nothing a head can say, to find where the
\* items of an encoding begin and end
LaxMode ==
  [DupMapKey |-> FALSE, IndefLength |-> FALSE, MapKeyByteString |-> FALSE,
   AllowUndefined |-> TRUE, NaN |-> FALSE, Inf |-> FALSE, Float64Only |-> FALSE,
   TagsMd |-> FALSE, EnforceIntPrefEnc |-> FALSE, MapKeyTypeStrict |-> FALSE,
   EnforceSort |-> FALSE, MaxNestedLevels |-> 65535, MaxArrayElements |-> Huge,
   MaxMapPairs |-> Huge, Int64RangeOnly |-> FALSE, UseRawCid |-> FALSE]
ItemEnd(bs, pos) == Scan(bs, pos, 0, LaxMode, FALSE).n

\* in the encoding bs, the item at pos: in every map in it each key's encoded
\* bytes are bytewise greater than those of the key before it
RECURSIVE KeysAscend(_, _)
RECURSIVE PairsAscend(_, _, _, _)
RECURSIVE ElemsAscend(_, _, _)
KeysAscend(bs, pos) ==
  CASE ReadHead(bs, pos).major = 5 ->
         PairsAscend(bs, ReadHead(bs, pos).n, ArgNat(ReadHead(bs, pos).raw), <<>>)
    [] ReadHead(bs, pos).major = 4 ->
         ElemsAscend(bs, ReadHead(bs, pos).n, ArgNat(ReadHead(bs, pos).raw))
    [] ReadHead(bs, pos).major = 6 -> KeysAscend(bs, ReadHead(bs, pos).n)
    [] OTHER -> TRUE
PairsAscend(bs, pos, n, prev) ==
  \/ n = 0
  \/ /\ prev = <<>> \/ LexLess(prev, SubSeq(bs, pos, ItemEnd(bs, pos) - 1))
     /\ KeysAscend(bs, ItemEnd(bs, pos))
     /\ PairsAscend(bs, ItemEnd(bs, ItemEnd(bs, pos)), n - 1,
                    SubSeq(bs, pos, ItemEnd(bs, pos) - 1))
ElemsAscend(bs, pos, n) ==
  \/ n = 0
  \/ KeysAscend(bs, pos) /\ ElemsAscend(bs, ItemEnd(bs, pos), n - 1)

\* C4: in the bytes Marshal returns for a map or a struct, the keys of every
\* map appear in strictly ascending bytewise order of their encoded form,
\* whatever the iteration order of the Go map and the declaration order of
\* the struct's fields, the keys of its `unknown` field included.
KeysStrictlyAscending ==
  /\ (pc = "encoded" /\ merr = "" /\ val.k \in {"map", "struct"})
       => KeysAscend(out, 1)
  /\ (pc = "reencoded" /\ merr = "" /\ v.k \in {"map", "struct"})
       => KeysAscend(out, 1)
  /\ pc = "shared"
       => \A c \in Callers :
            (callers[c].pc = "done" /\ callers[c].err = "")
              => KeysAscend(callers[c].out, 1)

\* C4 happens: a struct that declares "aa" before "b" and carries unknown
\* keys was encoded, "b" ahead of "aa"
KeysStrictlyAscendingWitness ==
  /\ pc = "encoded"
  /\ merr = ""
  /\ val.k = "struct"
  /\ val.a[1].b = <<97, 97>>
  /\ val.a[2].b = <<98>>
  /\ Cardinality(val.m) = 2
  /\ \E i \in 1..(Len(out) - 4) :
       SubSeq(out, i, i + 1) = <<97, 98>> /\ SubSeq(out, i + 3, i + 5) = <<98, 97, 97>>

\* bs is one complete item by the rules of the heads alone
OneItem(bs) == WholeItem(Scan(bs, 1, 0, LaxMode, FALSE), bs)

\* the n pairs at pos in bs: each key's encoded bytes are bytewise greater
\* than those of the key before it
RECURSIVE TopKeysAscend(_, _, _, _)
TopKeysAscend(bs, pos, n, prev) ==
  \/ n = 0
  \/ /\ prev = <<>> \/ LexLess(prev, SubSeq(bs, pos, ItemEnd(bs, pos) - 1))
     /\ TopKeysAscend(bs, ItemEnd(bs, ItemEnd(bs, pos)), n - 1,
                      SubSeq(bs, pos, ItemEnd(bs, pos) - 1))

\* the input is a map in which some key is not greater than the key before
\* it; for an open target the maps inside it count as well
KeyOrderBroken(bs, tgt) ==
  /\ OneItem(bs)
  /\ ReadHead(bs, 1).major = 5
  /\ \/ ~TopKeysAscend(bs, ReadHead(bs, 1).n, ArgNat(ReadHead(bs, 1).raw), <<>>)
     \/ tgt = "any" /\ ~KeysAscend(bs, 1)

\* C5: Unmarshal, into an open target and into a struct target alike, fails
\* for every input map in which some key is not strictly greater, bytewise
\* over the encoded key, than the key before it: keys out of order and
\* duplicate keys.
UnsortedOrDuplicateKeysRejected ==
  (pc = "decoded" /\ target \in {"any", "struct"} /\ KeyOrderBroken(data, target))
    => err # ""

\* C5 happens: a map that repeats a key was refused for a struct target
UnsortedOrDuplicateKeysRejectedWitness ==
  /\ pc = "decoded"
  /\ target = "struct"
  /\ KeyOrderBroken(data, target)
  /\ ArgNat(ReadHead(data, 1).raw) = 2
  /\ SubSeq(data, 2, 3) = SubSeq(data, 5, 6)
  /\ err = "DupKey"

\* C5 happens for an open target and keys out of order
UnsortedKeysRejectedWitness ==
  /\ pc = "decoded"
  /\ target = "any"
  /\ KeyOrderBroken(data, target)
  /\ err = "Unsorted"

\* the decoded value of r, a result of Unmarshal without error, encodes to h
ReencodesTo(r, h) ==
  /\ r.err = ""
  /\ \A rank \in Ranks(r.v) : Marshal(r.v, DefaultEncOptions, rank) = EOk(h)

\* h is one complete canonical item: Unmarshal accepts it into an open
\* target and Marshal of the decoded value returns h
Canonical(h) == ReencodesTo(Unmarshal(h, DefaultDecOptions, "any", NilV), h)

\* C6: Marshal accepts the bytes h that a value's MarshalCBOR method returns
\* only if h is one complete canonical item, which the strict decoder accepts
\* and which encodes again to h; the bytes it then returns are h, and when it
\* refuses it returns an error and no bytes.
MarshalerOutputCanonical ==
  (pc = "encoded" /\ val.k = "hook" /\ eopts = DefaultEncOptions)
    => IF merr = "" THEN out = val.b /\ Canonical(val.b)
       ELSE out = <<>>

\* the integer of sign neg and magnitude mag lies in [-(2^64), 2^64 - 1], or
\* in [-(2^63), 2^63 - 1] when only the int64 range is permitted
InRange(neg, mag, int64Only) ==
  IF int64Only
  THEN IF neg THEN MagLeq(mag, Pow63) ELSE MagLess(mag, Pow63)
  ELSE IF neg THEN MagLeq(mag, Pow64) ELSE MagLess(mag, Pow64)

\* bs is one integer item with the shortest head
IntItem(bs) ==
  /\ OneItem(bs)
  /\ ReadHead(bs, 1).major \in {0, 1}
  /\ IsPreferredHead(ReadHead(bs, 1).ai, ReadHead(bs, 1).raw)

\* the magnitude of the integer the item bs stands for
MagOf(bs) ==
  IF ReadHead(bs, 1).major = 1 THEN MagInc(Norm(ReadHead(bs, 1).raw))
  ELSE Norm(ReadHead(bs, 1).raw)

\* C7: Marshal accepts an integer, and Unmarshal an integer item, exactly
\* when the integer lies in [-(2^64), 2^64 - 1] under the default options and
\* in [-(2^63), 2^63 - 1] under Int64RangeOnly.
IntegerRange ==
  /\ (pc = "encoded" /\ val.k = "int")
       => (merr = "" <=> InRange(val.neg, val.b, eopts.Int64RangeOnly))
  /\ (pc = "decoded" /\ target = "any" /\ IntItem(data))
       => /\ err = "" <=> InRange(ReadHead(data, 1).major = 1, MagOf(data),
                                  opts.Int64RangeOnly)
          /\ err = "" => v.k = "int" /\ v.neg = (ReadHead(data, 1).major = 1)
                           /\ v.b = MagOf(data)

\* C7 happens: under Int64RangeOnly the item for -(2^63) was decoded and the
\* range's lower end was accepted
IntegerRangeWitness ==
  /\ pc = "decoded"
  /\ target = "any"
  /\ opts.Int64RangeOnly
  /\ data = <<59>> \o MaxInt64
  /\ err = ""
  /\ v.neg
  /\ v.b = Pow63

\* C7 happens on the encoding side: a big.Int equal to 2^64 was refused under
\* the default options
BigIntRefusedWitness ==
  /\ pc = "encoded"
  /\ val = IntV("big", FALSE, Pow64)
  /\ eopts = DefaultEncOptions
  /\ merr # ""

\* C7 happens: under Int64RangeOnly the item for 2^63 was refused
Int64RangeRefusedWitness ==
  /\ pc = "decoded"
  /\ target = "any"
  /\ opts.Int64RangeOnly
  /\ data = <<27>> \o Pow63
  /\ err # ""

\* the head h, of a major type whose argument is a number, a length or a
\* count, spends more bytes on its argument than the argument needs
LongHead(h) ==
  /\ h.ok
  /\ h.major # 7
  /\ \/ h.ai = 24 /\ h.raw[1] < 24
     \/ h.ai = 25 /\ h.raw[1] = 0
     \/ h.ai = 26 /\ h.raw[1] = 0 /\ h.raw[2] = 0
     \/ h.ai = 27 /\ \A i \in 1..4 : h.raw[i] = 0

\* in the encoding bs, the item at pos and every item inside it has the
\* shortest head
RECURSIVE HeadsMinimal(_, _)
RECURSIVE ItemsMinimal(_, _, _)
HeadsMinimal(bs, pos) ==
  /\ ~LongHead(ReadHead(bs, pos))
  /\ CASE ReadHead(bs, pos).major = 4 ->
             ItemsMinimal(bs, ReadHead(bs, pos).n, ArgNat(ReadHead(bs, pos).raw))
        [] ReadHead(bs, pos).major = 5 ->
             ItemsMinimal(bs, ReadHead(bs, pos).n, 2 * ArgNat(ReadHead(bs, pos).raw))
        [] ReadHead(bs, pos).major = 6 -> HeadsMinimal(bs, ReadHead(bs, pos).n)
        [] OTHER -> TRUE
ItemsMinimal(bs, pos, n) ==
  \/ n = 0
  \/ HeadsMinimal(bs, pos) /\ ItemsMinimal(bs, ItemEnd(bs, pos), n - 1)

\* C8: Unmarshal, whatever the target, fails for every input in which some
\* item's head spends more bytes on its argument than the shortest form, in
\* every major type, and every head in the bytes Marshal returns is the
\* shortest.
ShortestHeads ==
  /\ (pc = "decoded" /\ OneItem(data) /\ ~HeadsMinimal(data, 1)) => err # ""
  /\ (pc \in {"encoded", "reencoded"} /\ merr = "") => HeadsMinimal(out, 1)

\* C8 happens: -1 written as 0x38 0x00 was refused
ShortestHeadsWitness ==
  /\ pc = "decoded"
  /\ data = <<56, 0>>
  /\ err = "NonMinimal"

\* C8 happens on the encoding side: 256 was encoded in a head of three bytes
ShortestHeadsEncodedWitness ==
  /\ pc = "encoded"
  /\ merr = ""
  /\ val.k = "int"
  /\ val.b = <<1, 0>>
  /\ out = <<25, 1, 0>>

\* in the encoding bs, the item at pos: every tag in it has the number 42
RECURSIVE OnlyCidTags(_, _)
RECURSIVE ItemsOnlyCidTags(_, _, _)
OnlyCidTags(bs, pos) ==
  CASE ReadHead(bs, pos).major = 6 ->
         /\ Norm(ReadHead(bs, pos).raw) = <<42>>
         /\ OnlyCidTags(bs, ReadHead(bs, pos).n)
    [] ReadHead(bs, pos).major = 4 ->
         ItemsOnlyCidTags(bs, ReadHead(bs, pos).n, ArgNat(ReadHead(bs, pos).raw))
    [] ReadHead(bs, pos).major = 5 ->
         ItemsOnlyCidTags(bs, ReadHead(bs, pos).n, 2 * ArgNat(ReadHead(bs, pos).raw))
    [] OTHER -> TRUE
ItemsOnlyCidTags(bs, pos, n) ==
  \/ n = 0
  \/ OnlyCidTags(bs, pos) /\ ItemsOnlyCidTags(bs, ItemEnd(bs, pos), n - 1)

\* C9: Unmarshal fails, whatever the target and the options, for every input
\* that holds a tag with a number other than 42; Marshal fails for a cbor.Tag
\* and a cbor.RawTag with another number, and no bytes it returns, those of
\* a MarshalCBOR method included, hold a tag other than 42.
OnlyTag42 ==
  /\ (pc = "decoded" /\ OneItem(data) /\ ~OnlyCidTags(data, 1)) => err # ""
  /\ (pc = "encoded" /\ val.k \in {"tag", "rawtag"} /\ val.b # <<42>>) => merr # ""
  /\ (pc \in {"encoded", "reencoded"} /\ merr = "") => OnlyCidTags(out, 1)

\* C9 happens: tag 1 around an integer was refused for a time target
OnlyTag42Witness ==
  /\ pc = "decoded"
  /\ target = "time"
  /\ data = <<193, 0>>
  /\ err = "Tag"

\* C9 happens on the encoding side: a MarshalCBOR method that returned tag 1
\* was refused, and so was a cbor.RawTag of number 123
OtherTagRefusedWitness ==
  /\ pc = "encoded"
  /\ \/ val.k = "hook" /\ val.b = <<193, 0>>
     \/ val.k = "rawtag" /\ val.b = <<123>>
  /\ merr # ""
  /\ out = <<>>

\* C9 happens: tag 42 was emitted for a cbor.Tag
Tag42EmittedWitness ==
  /\ pc = "encoded"
  /\ val.k = "tag"
  /\ merr = ""
  /\ SubSeq(out, 1, 2) = <<216, 42>>

\* bs is one complete item that Unmarshal accepts into target tgt under the
\* options o, followed by one byte or more
ItemThenMore(bs, o, tgt) ==
  /\ Scan(bs, 1, 0, LaxMode, FALSE).ok
  /\ ItemEnd(bs, 1) <= Len(bs)
  /\ Unmarshal(SubSeq(bs, 1, ItemEnd(bs, 1) - 1), o, tgt, OldValue(tgt)).err = ""

\* C10: Unmarshal of one complete valid item followed by at least one more
\* byte returns an error and leaves the target as it was before the call.
TrailingDataRejected ==
  (pc = "decoded" /\ ItemThenMore(data, opts, target))
    => (err # "" /\ v = old)

\* C10 happens: a map with a pair for field A of a struct target, followed
\* by a byte, was refused and the struct's field kept its value
TrailingDataRejectedWitness ==
  /\ pc = "decoded"
  /\ target = "struct"
  /\ ItemThenMore(data, opts, target)
  /\ ReadHead(data, 1).major = 5
  /\ Unmarshal(SubSeq(data, 1, Len(data) - 1), opts, target, old).v # old
  /\ err = "Extraneous"
  /\ v = old

\* the bytes of the first n items written to the stream
Written(n) == Len(Concat(SubSeq(stream.parts, 1, n)))

\* the items that the source holds whole
Whole ==
  CHOOSE n \in 0..Len(stream.parts) :
    /\ Written(n) <= Len(stream.src)
    /\ n < Len(stream.parts) => Written(n + 1) > Len(stream.src)

\* the source stops where an item stops
AtBoundary == Len(stream.src) = Written(Whole)

\* the value that Unmarshal gives for the i-th item written
ItemValue(i) == Unmarshal(stream.parts[i], DefaultDecOptions, "any", NilV)

\* C11: when a Decoder reads a source that holds k items written by an
\* Encoder, each of its first k Decode calls consumes exactly one item, in
\* the order written, and returns its value, and the call after the k-th
\* returns io.EOF; when the source stops inside an item, the calls consume
\* the whole items before it and the next call returns
\* io.ErrUnexpectedEOF, not io.EOF.
StreamDecodesItemByItem ==
  stream.pc = "reading" =>
    /\ \A i \in 1..Len(stream.got) :
         ItemValue(i) = [err |-> "", v |-> stream.got[i]]
    /\ IF stream.calls <= Whole
       THEN /\ stream.res = ""
            /\ Len(stream.got) = stream.calls
            /\ stream.off = Written(stream.calls)
       ELSE /\ Len(stream.got) = Whole
            /\ stream.off = Written(Whole)
            /\ stream.res = IF AtBoundary THEN "EOF" ELSE "UnexpectedEOF"

StreamDecodesItemByItemWitness ==
  /\ stream.pc = "reading"
  /\ Len(stream.parts) = MaxStream
  /\ stream.src = Concat(stream.parts)
  /\ Len(stream.got) = MaxStream
  /\ stream.got[1] # stream.got[2]
  /\ stream.calls = MaxStream + 1
  /\ stream.res = "EOF"

\* the source stops inside the second item: the first is decoded and the
\* next call returns io.ErrUnexpectedEOF
StreamEndsInsideItemWitness ==
  /\ stream.pc = "reading"
  /\ ~AtBoundary
  /\ Len(stream.got) = 1
  /\ stream.res = "UnexpectedEOF"

RECURSIVE NestingDepth(_, _)
\* how deep the arrays, maps and tags of the item at pos of bs are nested,
\* for an item of NestedData
NestingDepth(bs, pos) ==
  CASE bs[pos] = 129 -> 1 + NestingDepth(bs, pos + 1)
    [] bs[pos] = 161 -> 1 + NestingDepth(bs, pos + 3)
    [] bs[pos] \in {128, 160, 216} -> 1
    [] OTHER -> 0

\* C12: a decoder made with MaxNestedLevels = cap accepts an otherwise valid
\* input whose arrays, maps and tags are nested N deep if and only if
\* N <= cap, where a cap left at zero counts as 32; the refusal is the
\* nesting error.
NestingCapExact ==
  pc = "nested" =>
    /\ err \in {"", "MaxNested"}
    /\ err = "" <=>
         NestingDepth(data, 1)
           <= IF opts.MaxNestedLevels = 0 THEN 32 ELSE opts.MaxNestedLevels

\* 32 levels are accepted under the default cap
NestingCapExactWitness ==
  /\ pc = "nested"
  /\ opts.MaxNestedLevels = 0
  /\ NestingDepth(data, 1) = 32
  /\ err = ""

\* 33 levels are refused under the default cap
NestingDefaultRefusedWitness ==
  /\ pc = "nested"
  /\ opts.MaxNestedLevels = 0
  /\ NestingDepth(data, 1) = 33
  /\ err = "MaxNested"
  /\ v = old

\* 5 levels, the innermost a tag in a map, are refused under a cap of 4
NestingCapSetWitness ==
  /\ pc = "nested"
  /\ opts.MaxNestedLevels = 4
  /\ NestingDepth(data, 1) = 5
  /\ Len(data) > 8
  /\ SubSeq(data, 4, 8) = <<161, 97, 97, 216, 42>>
  /\ err = "MaxNested"

RECURSIVE SimpleHeads(_, _, _)
\* the places in bs, from pos on, where an item's head is the byte x
SimpleHeads(bs, pos, x) ==
  IF ~ReadHead(bs, pos).ok THEN {}
  ELSE (IF bs[pos] = x THEN {pos} ELSE {})
         \cup SimpleHeads(bs,
                          IF ReadHead(bs, pos).major \in {2, 3}
                          THEN ReadHead(bs, pos).n + ArgNat(ReadHead(bs, pos).raw)
                          ELSE ReadHead(bs, pos).n,
                          x)

\* C13 as stated: for every input that some decoder mode accepts, one built
\* with AllowUndefined included, the re-encoding of the decoded value has no
\* null (0xf6) where the input had undefined (0xf7) and no undefined where
\* the input had null.
NullUndefinedNeverExchanged ==
  (pc = "reencoded" /\ target = "any" /\ merr = "") =>
    /\ SimpleHeads(out, 1, 246) \cap SimpleHeads(data, 1, 247) = {}
    /\ SimpleHeads(out, 1, 247) \cap SimpleHeads(data, 1, 246) = {}

\* C13, amended: an input that holds undefined is accepted only by a mode
\* built with AllowUndefined; the re-encoding of what such a mode decoded
\* into an open target has null wherever the input had null or undefined,
\* and Marshal never emits undefined, so null is never turned into
\* undefined.
UndefinedFoldedToNull ==
  /\ (pc = "decoded" /\ err = "" /\ SimpleHeads(data, 1, 247) # {})
       => opts.AllowUndefined
  /\ (pc = "reencoded" /\ target = "any" /\ merr = "") =>
       /\ SimpleHeads(out, 1, 247) = {}
       /\ SimpleHeads(out, 1, 246)
            = SimpleHeads(data, 1, 246) \cup SimpleHeads(data, 1, 247)

\* undefined inside an array was decoded under AllowUndefined and came back
\* as null
UndefinedFoldedToNullWitness ==
  /\ pc = "reencoded"
  /\ target = "any"
  /\ opts.AllowUndefined
  /\ data = <<129, 247>>
  /\ merr = ""
  /\ out = <<129, 246>>
(***************************************************************************)
(* Cids                                                                    *)
(***************************************************************************)
\* the predicate of a DASL CID: version 1, a codec and a hash type of the
\* two allowed each, the hash size 32 and a digest of 32 bytes
DaslCid(b) ==
  /\ Len(b) = minCidLength + HashLength
  /\ b[1] = CidVersion
  /\ b[2] \in {CodecRaw, CodecDrisl}
  /\ b[3] \in {HashTypeSha256, HashTypeBlake3}
  /\ b[4] = HashLength
\* the bytes that the input of a constructor stands for
StatedCid(how, in) ==
  CASE how = "bytes" -> in
    [] how = "reader" -> Upto(in, IF Len(in) < 36 THEN Len(in) ELSE 36)
    [] how = "string" -> IF Len(in) > 0 /\ DecodeString(Tail(in)).ok
                         THEN DecodeString(Tail(in)).b ELSE <<>>
    [] how = "info" -> <<CidVersion, in[1], in[2], Len(in) - 2>> \o Tail2(in, 2)
    [] OTHER -> IF DecodeTag(in).ok /\ DecodeTag(in).isBytes
                THEN Tail2(DecodeTag(in).bytes, 1) ELSE <<>>

\* C14: every constructor (NewCidFromBytes, NewCidFromReader,
\* NewCidFromString, NewCidFromInfo, Cid.UnmarshalCBOR) returns a Cid only
\* if the bytes satisfy the DASL predicate with hash size 32 and a digest of
\* 32 bytes, returns an error for every input that violates it, and
\* NewCidFromBytes and NewCidFromReader accept the same sequences of 36 bytes
OnePredicateOnEveryPath ==
  /\ cid.pc = "made" => DaslCid(cid.orig)
  /\ (cid.pc \in {"made", "failed"} /\ ~DaslCid(StatedCid(cid.how, cid.in)))
       => cid.err # ""
  /\ (cid.pc \in {"made", "failed"} /\ cid.how = "bytes"
        /\ Len(cid.in) = minCidLength + HashLength)
       => (cid.err = "" <=> NewCidFromReader(cid.in).err = "")

\* a text of 59 characters: 'b', then 58 base32 characters of either case
\* that decode to a DASL CID
DaslCidText(s) ==
  /\ Len(s) = 59
  /\ s[1] = 98
  /\ \A i \in 2..Len(s) : decodeMap(ToLower(s)[i]) # 255
  /\ DaslCid(DecodeString(Tail(ToLower(s))).b)

\* C15: NewCidFromString accepts a text iff it has 59 characters, begins
\* with 'b' and goes on with 58 base32 characters, of either case, that
\* decode to a valid CID of 36 bytes; the upper-case and the lower-case
\* spelling of a CID give equal Cids
StringAcceptedIffDaslText ==
  (cid.pc \in {"made", "failed"} /\ cid.how = "string") =>
    /\ cid.err = "" <=> DaslCidText(cid.in)
    /\ DaslCidText(cid.in) =>
         /\ NewCidFromString(<<98>> \o ToUpper(Tail(cid.in))).err = ""
         /\ Equals(NewCidFromString(<<98>> \o ToUpper(Tail(cid.in))).b, cid.orig)

\* what c.Bytes() returns
BytesOf(c) == Bytes(c.heap, c.b).heap[Bytes(c.heap, c.b).ref]

\* C16: for every Cid c that a constructor returned,
\* NewCidFromString(c.String()) and NewCidFromBytes(c.Bytes()) succeed and
\* return a Cid equal to c, c.String() is 59 lower-case characters that
\* begin with 'b', and c.Bytes() is 36 bytes
TextAndBinaryRoundTrip ==
  (cid.pc = "made" /\ cid.back # <<>>) =>
    /\ cid.back[1].err = "" /\ Equals(cid.back[1].b, cid.orig)
    /\ cid.back[2].err = "" /\ Equals(cid.back[2].b, cid.orig)
    /\ Len(String(cid.orig)) = 59
    /\ String(cid.orig) = ToLower(String(cid.orig))
    /\ String(cid.orig)[1] = 98
    /\ Len(BytesOf(cid)) = minCidLength + HashLength

\* the cases in which Cid.UnmarshalCBOR is to return an error
BadCidTag(tag) ==
  \/ ~tag.ok
  \/ tag.number # CidTagNumber
  \/ ~tag.isBytes
  \/ Len(tag.bytes) = 0
  \/ tag.bytes[1] # 0
  \/ ~DaslCid(Tail(tag.bytes))

\* C17: for every valid CID c, c.MarshalCBOR() is tag 42 around the byte
\* string of 37 bytes 0x00 || c's 36 bytes and UnmarshalCBOR of it gives a
\* Cid equal to c; UnmarshalCBOR returns an error when the tag number is not
\* 42, the content is no byte string, is empty, does not begin with 0x00, or
\* the bytes after the 0x00 are not a valid CID
CidTagRoundTrip ==
  /\ (cid.pc = "made" /\ DaslCid(cid.orig)) =>
       /\ CidMarshalCBOR(cid.heap[cid.b]) = <<216, 42, 88, 37, 0>> \o cid.orig
       /\ CidUnmarshalCBOR(CidMarshalCBOR(cid.heap[cid.b])).ok
       /\ Equals(CidUnmarshalCBOR(CidMarshalCBOR(cid.heap[cid.b])).v.b, cid.orig)
  /\ (cid.pc \in {"made", "failed"} /\ cid.how = "cbor" /\ BadCidTag(DecodeTag(cid.in)))
       => cid.err # ""

\* fewer than 36 bytes that a valid CID begins with
CutDaslCid(in) ==
  /\ Len(in) < minCidLength + HashLength
  /\ Len(in) >= 1 => in[1] = CidVersion
  /\ Len(in) >= 2 => in[2] \in {CodecRaw, CodecDrisl}
  /\ Len(in) >= 3 => in[3] \in {HashTypeSha256, HashTypeBlake3}
  /\ Len(in) >= 4 => in[4] = HashLength

\* C18: on a reader whose first 36 bytes are a valid CID NewCidFromReader
\* returns that CID and has taken 36 bytes, so that the next read gives the
\* byte after the CID; on a reader that ends before the 36 bytes it returns
\* io.ErrUnexpectedEOF, never io.EOF, and no Cid
ReaderTakesTheCidOnly ==
  (cid.pc \in {"made", "failed"} /\ cid.how = "reader") =>
    /\ (Len(cid.in) >= 36 /\ DaslCid(Upto(cid.in, 36))) =>
         /\ cid.err = ""
         /\ cid.orig = Upto(cid.in, 36)
         /\ cid.n = 36
    /\ CutDaslCid(cid.in) => (cid.err = "UnexpectedEOF" /\ cid.pc = "failed")
    /\ cid.err # "EOF"

\* C19: a Cid does not change once constructed: whatever the caller writes
\* to the slice given to NewCidFromBytes or to a slice that Bytes, Digest,
\* MarshalBinary, AppendBinary or MarshalCBOR returned, Bytes(), String()
\* and Equals() give what they gave right after construction
CidIsImmutable ==
  cid.pc = "made" =>
    /\ BytesOf(cid) = cid.orig
    /\ String(cid.heap[cid.b]) = String(cid.orig)
    /\ Equals(cid.heap[cid.b], cid.orig)
\* the caller wrote to the slice it had given to NewCidFromBytes
CidIsImmutableWitness ==
  /\ cid.pc = "made" /\ cid.how = "bytes"
  /\ cid.heap[1] # cid.in
  /\ BytesOf(cid) = cid.in
\* the caller wrote to a slice that a method of the Cid had returned
ReturnedSliceWrittenWitness ==
  /\ cid.pc = "made" /\ cid.ops = 2
  /\ \E s \in cid.held : s > cid.b /\ Len(cid.heap[s]) = Len(cid.orig)
                          /\ cid.heap[s] # cid.orig
  /\ cid.heap[cid.b] = cid.orig

\* tag 42 around a byte string that begins with 0x00, each head in its
\* shortest form, and nothing after it
IsCidInCBOR(d) ==
  /\ DecodeTag(d).ok
  /\ DecodeTag(d).number = CidTagNumber
  /\ DecodeTag(d).isBytes
  /\ Len(DecodeTag(d).bytes) >= 1
  /\ DecodeTag(d).bytes[1] = 0
  /\ d = CidMarshalCBOR(Tail(DecodeTag(d).bytes))

\* C20: with UseRawCid a tag 42 around a byte string decodes to a RawCid
\* that holds the bytes after the leading 0x00, whatever their number and
\* content, and Marshal of that RawCid gives the bytes that were decoded
RawCidRoundTrip ==
  (pc \in {"decoded", "reencoded"} /\ opts.UseRawCid /\ target = "any"
     /\ IsCidInCBOR(data)) =>
    /\ err = ""
    /\ v = RawCidV(Tail(DecodeTag(data).bytes))
    /\ pc = "reencoded" => (merr = "" /\ out = data)
\* bytes that are no CID (version 2) went through a RawCid and came back
RawCidRoundTripWitness ==
  /\ pc = "reencoded" /\ opts.UseRawCid /\ target = "any"
  /\ data = <<216, 42, 69, 0, 2, 85, 18, 0>>
  /\ v = RawCidV(<<2, 85, 18, 0>>)
  /\ out = data


(***************************************************************************)
(* package rasl: URL.FetchWithClient, its request goroutines, its drain    *)
(* goroutine, and the verifying reader it returns                          *)
(***************************************************************************)
\* make(chan ret, numReqs)
Unbuffered(n) == 0
ChanCap(n) == n

\* r.err == nil && r.resp.StatusCode == 200
NoError(r) == ~r.err
IsSuccess(r) == ~r.err /\ r.status = 200

\* the cancel functions the loop over cancelers calls: every index j of
\* 0..n-1 but the one equal to i, as hints counted from 1
Losers(i, n) == {j + 1 : j \in (0..(n - 1)) \ {i}}

\* if r.resp != nil { r.resp.Body.Close() }
NoCleanUp(r, closed) == closed
CleanUp(r, closed) == IF r.resp THEN closed \cup {r.hint} ELSE closed

\* FetchWithClient up to the receive loop: the nil client, the empty hint
\* list, the channel, and one goroutine and one cancel function per hint
FetchWithClient(hints) ==
  /\ fetch.pc = "none"
  /\ \E client \in BOOLEAN, n \in hints, c \in FetchCidInputs :
       fetch' =
         IF ~client
         THEN [fetch EXCEPT !.pc = "returned", !.client = FALSE,
                            !.ret = "client cannot be nil"]
         ELSE IF n = 0
         THEN [fetch EXCEPT !.pc = "returned", !.ret = "ErrAllHintsFailed"]
         ELSE [fetch EXCEPT !.pc = "loop", !.numReqs = n, !.c = c,
                            !.g = [k \in 1..n |-> "run"]]
  /\ UNCHANGED <<codec, stream, cid, walk, masl>>

FetchStart == FetchWithClient(0..MaxHints)

\* one request goroutine: the request on its context, then its single send
FetchSend(k) ==
  /\ fetch.pc # "none"
  /\ k \in DOMAIN fetch.g
  /\ fetch.g[k] = "run"
  /\ Len(fetch.retCh) < ChanCap(fetch.numReqs)
  /\ \E r \in (IF k \in fetch.cancelled THEN {Refused} ELSE Outcomes) :
       fetch' = [fetch EXCEPT !.g[k] = "done",
                              !.retCh = Append(@, [hint |-> k] @@ r)]
  /\ UNCHANGED <<codec, stream, cid, walk, masl>>

\* one iteration of the receive loop, and what follows it when it ends
FetchReceive ==
  /\ fetch.pc = "loop"
  /\ fetch.retCh # <<>>
  /\ LET r == Head(fetch.retCh)
         f == [fetch EXCEPT !.retCh = Tail(@), !.recv = Append(@, r),
                            !.i = @ + 1]
     IN IF IsSuccess(r)
        THEN fetch' = [f EXCEPT !.pc = "returned", !.ret = "reader",
                                  !.cancelled = @ \cup Losers(fetch.i, fetch.numReqs),
                                  !.body = r.hint,
                                  !.drain = IF f.i < fetch.numReqs THEN "running"
                                            ELSE "none"]
        ELSE fetch' = [f EXCEPT !.closed = CleanUp(r, @),
                                !.pc = IF f.i = fetch.numReqs THEN "returned"
                                       ELSE "loop",
                                !.ret = IF f.i = fetch.numReqs
                                        THEN "ErrAllHintsFailed" ELSE ""]
  /\ UNCHANGED <<codec, stream, cid, walk, masl>>

\* one iteration of the goroutine that cleans up after the winner
FetchDrain ==
  /\ fetch.drain = "running"
  /\ fetch.retCh # <<>>
  /\ LET r == Head(fetch.retCh)
     IN fetch' = [fetch EXCEPT !.retCh = Tail(@), !.recv = Append(@, r),
                               !.i = @ + 1,
                               !.closed = CleanUp(r, @),
                               !.drain = IF fetch.i + 1 = fetch.numReqs THEN "done"
                                         ELSE "running"]
  /\ UNCHANGED <<codec, stream, cid, walk, masl>>

\* verifyReader.Read, given what the body's Read returned: the bytes chunk
\* and the error bodyErr
PassRead(h, c, chunk, bodyErr) ==
  [hasher |-> h, n |-> Len(chunk), err |-> bodyErr]
VerifyRead(h, c, chunk, bodyErr) ==
  LET hasher == IF Len(chunk) > 0 THEN HashWrite(h, chunk) ELSE h
  IN IF bodyErr = "EOF" /\ Digest(c) # HashSum(hasher)
     THEN [hasher |-> hasher, n |-> 0, err |-> "ErrCidValidation"]
     ELSE [hasher |-> hasher, n |-> Len(chunk), err |-> bodyErr]

\* one Read of the returned reader: the body gives some more bytes, and
\* reports nothing, the end of the stream, or a failure; after the end of
\* the stream it gives no byte and reports the end again
FetchRead ==
  /\ fetch.ret = "reader"
  /\ fetch.last.bodyErr # "failed"
  /\ \E chunk \in BodyChunks(Len(fetch.served)), bodyErr \in {"", "EOF", "failed"} :
       /\ fetch.last.bodyErr = "EOF" => bodyErr = "EOF" /\ chunk = <<>>
       /\ LET r == VerifyRead(fetch.hasher, fetch.c, chunk, bodyErr)
          IN fetch' = [fetch EXCEPT !.served = @ \o chunk,
                                    !.hasher = r.hasher,
                                    !.delivered = @ \o SubSeq(chunk, 1, r.n),
                                    !.last = [called |-> TRUE, bodyErr |-> bodyErr,
                                              n |-> r.n, err |-> r.err]]
  /\ UNCHANGED <<codec, stream, cid, walk, masl>>

FetchNext ==
  \/ FetchStart
  \/ \E k \in 1..MaxHints : FetchSend(k)
  \/ FetchReceive
  \/ FetchDrain

FetchSpec == Init /\ [][FetchNext]_vars

\* every goroutine that can take a step is scheduled, and every request
\* returns
FetchFairSpec ==
  /\ FetchSpec
  /\ WF_vars(FetchReceive)
  /\ WF_vars(FetchDrain)
  /\ \A k \in 1..MaxHints : WF_vars(FetchSend(k))

\* Fetch of a URL with one hint, and the Reads of the reader it returns
ReaderNext ==
  \/ FetchWithClient({1})
  \/ FetchSend(1)
  \/ FetchReceive
  \/ FetchRead

ReaderSpec == Init /\ [][ReaderNext]_vars


(***************************************************************************)
(* RASL: the fetch                                                         *)
(***************************************************************************)
Hints == 1..fetch.numReqs
Succeeded(r) == r.resp /\ ~r.err /\ r.status = 200
Received == {fetch.recv[x] : x \in DOMAIN fetch.recv}
Yielded == Received \cup {fetch.retCh[x] : x \in DOMAIN fetch.retCh}

\* C21: once FetchWithClient with two or more hints has received its first
\* error-free response of status 200, from hint k, the cancel function of
\* every other hint has been called and the one of hint k has not, in
\* whatever order the results arrived
LosersCancelledWinnerKept ==
  (fetch.ret = "reader" /\ fetch.numReqs >= 2)
    => fetch.cancelled = Hints \ {fetch.body}

\* C22: FetchWithClient returns ErrAllHintsFailed if and only if no hint
\* yields an error-free response of status 200, the empty hint list included,
\* and returns a reader and no error when some hint does
AllHintsFailedIffNoneSucceeds ==
  fetch.pc = "returned" =>
    /\ fetch.ret = "ErrAllHintsFailed"
         <=> (\A r \in Yielded : ~Succeeded(r))
    /\ (\E r \in Yielded : Succeeded(r)) => fetch.ret = "reader"

\* C22, for a client that is not nil: the same, every hint having been heard
\* when ErrAllHintsFailed is returned, the call returning as soon as nothing
\* more can arrive, whatever the order of successes and failures
AllHintsFailedIffNoneSucceedsGivenClient ==
  /\ (fetch.pc = "returned" /\ fetch.client) =>
       /\ fetch.ret = "ErrAllHintsFailed"
            <=> (\A r \in Yielded : ~Succeeded(r))
       /\ (\E r \in Yielded : Succeeded(r)) => fetch.ret = "reader"
       /\ fetch.ret = "ErrAllHintsFailed" => Len(fetch.recv) = fetch.numReqs
       /\ fetch.ret = "reader" =>
            \E r \in Received : r.hint = fetch.body /\ Succeeded(r)
  /\ fetch.pc = "loop" =>
       /\ \A r \in Received : ~Succeeded(r)
       /\ fetch.retCh # <<>> \/ \E k \in Hints : fetch.g[k] = "run"
  /\ (fetch.pc = "returned" /\ ~fetch.client) => fetch.ret = "client cannot be nil"

\* a reader is returned for a success that arrived after a failure
SuccessAfterFailureWitness ==
  /\ fetch.ret = "reader"
  /\ Len(fetch.recv) >= 2
  /\ ~Succeeded(fetch.recv[1])
  /\ fetch.client

\* every hint has failed, the last of three with a response
AllHintsFailedWitness ==
  /\ fetch.ret = "ErrAllHintsFailed"
  /\ Len(fetch.recv) >= 2
  /\ fetch.recv[Len(fetch.recv)].resp

\* C29, what is true at every moment: a request goroutine never finds the
\* channel full, every response received that is not the winner's has its
\* body closed, the winner's body is not closed, and the drain goroutine ends
\* with the last of the N results and not before
FetchCleanUp ==
  /\ \A k \in Hints : fetch.g[k] = "run" => Len(fetch.retCh) < fetch.numReqs
  /\ \A r \in Received : (r.resp /\ r.hint # fetch.body) => r.hint \in fetch.closed
  /\ fetch.body \notin fetch.closed
  /\ fetch.drain = "done" => Len(fetch.recv) = fetch.numReqs /\ fetch.retCh = <<>>
  /\ fetch.drain = "running" => Len(fetch.recv) < fetch.numReqs
  /\ fetch.pc = "returned" /\ fetch.client /\ fetch.drain = "none"
       => Len(fetch.recv) = fetch.numReqs
  /\ Len(fetch.recv) = fetch.i

FetchQuiet ==
  /\ \A k \in Hints : fetch.g[k] = "done"
  /\ fetch.retCh = <<>>
  /\ Len(fetch.recv) = fetch.numReqs
  /\ fetch.drain \in {"none", "done"}

LastReadTellsTheDigest ==
  fetch.last.called =>
    /\ fetch.last.bodyErr = "EOF" =>
         fetch.last.err = IF Sum256(fetch.served) = Tail2(fetch.c, 4) THEN "EOF"
                          ELSE "ErrCidValidation"
    /\ fetch.last.err = "ErrCidValidation" => fetch.last.bodyErr = "EOF"
    /\ fetch.last.bodyErr # "EOF" => fetch.last.err = fetch.last.bodyErr
    /\ (fetch.last.bodyErr = "EOF" /\ Sum256(fetch.served) = Tail2(fetch.c, 4))
         => fetch.delivered = fetch.served

\* a body of two bytes that match the CID has been read to its end
LastReadTellsTheDigestWitness ==
  /\ fetch.last.called
  /\ fetch.last.err = "EOF"
  /\ fetch.delivered = <<1, 2>>

\* a body that does not match the CID has been read to its end
CidValidationWitness ==
  /\ fetch.last.err = "ErrCidValidation"
  /\ Len(fetch.served) >= 1


(***************************************************************************)
(* package masl: a caller that builds or decodes a Document, validates it  *)
(* and encodes it                                                          *)
(***************************************************************************)
\* a Document literal
MakeDocument ==
  /\ masl.pc = "none"
  /\ \E d \in DocumentInputs : masl' = [masl EXCEPT !.pc = "made", !.doc = d]
  /\ UNCHANGED <<codec, stream, cid, fetch, walk>>

\* doc.Valid()
Validate ==
  /\ masl.pc \in {"made", "decoded"}
  /\ masl.err = ""
  /\ \E paths \in Orders(masl.doc) :
       masl' = [masl EXCEPT !.pc = "validated", !.ret = Valid(masl.doc, paths)]
  /\ UNCHANGED <<codec, stream, cid, fetch, walk>>

\* a sender's drisl.Marshal of a map, and drisl.Unmarshal of the bytes into
\* a Document
UnmarshalDocument ==
  /\ masl.pc = "none"
  /\ \E x \in WireDocuments :
       \E e \in {Marshal(x, DefaultEncOptions, rank) : rank \in TwoRanks(x)} :
         \E r \in {UnmarshalDocumentFrom(Unmarshal(e.out, DefaultDecOptions, "any", NilV))} :
           masl' = [masl EXCEPT !.pc = "decoded", !.wire = x, !.data = e.out,
                                !.err = r.err, !.doc = r.doc]
  /\ UNCHANGED <<codec, stream, cid, fetch, walk>>

\* drisl.Marshal(doc) of the decoded Document
MarshalDocument ==
  /\ masl.pc = "decoded"
  /\ masl.err = ""
  /\ \E rank \in TwoRanks(DocumentV(masl.doc)) :
       \E e \in {Marshal(DocumentV(masl.doc), DefaultEncOptions, rank)} :
         masl' = [masl EXCEPT !.pc = "marshaled", !.out = e.out, !.err = e.err]
  /\ UNCHANGED <<codec, stream, cid, fetch, walk>>

MaslNext ==
  \/ MakeDocument
  \/ Validate
  \/ UnmarshalDocument
  \/ MarshalDocument

MaslSpec == Init /\ [][MaslNext]_vars


(***************************************************************************)
(* MASL                                                                    *)
(***************************************************************************)
ResourcesIn(d) == {d.Resources.m[path] : path \in DOMAIN d.Resources.m}
SrcsOf(list) == {list[x].Src : x \in DOMAIN list} \ {<<>>}
\* the paths a record refers to from its sourcemap and speculation-rules,
\* and from its icons and screenshots
HeaderRefs(r) == {r.Sourcemap, r.SpeculationRules} \ {<<>>}
ManifestRefs(r) == SrcsOf(r.Icons) \cup SrcsOf(r.Screenshots)

VersionAndTypeOk(d) == d.Version \in {0, 1} /\ d.Type \in {<<>>, TypeMasl}
PathsAndSrcsOk(d) ==
  /\ \A path \in DOMAIN d.Resources.m : path # <<>> /\ Head(path) = Slash[1]
  /\ \A r \in ResourcesIn(d) : ~r.nil /\ r.Src # <<>>

SourcemapMissingWitness ==
  /\ masl.pc = "validated"
  /\ masl.ret = "false"
  /\ VersionAndTypeOk(masl.doc)
  /\ ~masl.doc.Resources.nil
  /\ PathsAndSrcsOk(masl.doc)
  /\ ManifestRefs(masl.doc.Resource) = {}

\* C30: Valid returns true or false for every Document and never panics, a
\* bundle whose Resources hold a nil *Resource included
ValidNeverPanics ==
  masl.pc = "validated" => masl.ret \in {"true", "false"}


\* the keys of the map x that are no field of the record are in attributes
UnknownIn(x, fields, attributes) ==
  \A q \in x.m :
    (\A f \in fields : ToLower(f) # ToLower(q[1]))
      => \E a \in attributes : a[1] = q[1] /\ Equiv(q[2], a[2])
UnknownKept ==
  /\ UnknownIn(masl.wire, DocumentFields, masl.doc.Resource.Attributes)
  /\ \A q \in masl.wire.m :
       q[1] = KeyResources =>
         \A r \in q[2].m :
           r[2].k = "map" =>
             UnknownIn(r[2], ResourceFields, masl.doc.Resources.m[r[1]].Attributes)

Filled(x) ==
  CASE x.k = "nil" -> FALSE
    [] x.k \in {"text", "int"} -> x.b # <<>>
    [] x.k = "array" -> x.a # <<>>
    [] x.k = "map" -> x.m # {}
    [] OTHER -> TRUE
\* x is an icon as Marshal writes one: a src, no key that is no field
IconAsWritten(x) ==
  /\ \E q \in x.m : q[1] = KeySrc
  /\ \A q \in x.m : q[1] \in IconFields /\ (q[1] = KeySizes => Filled(q[2]))
\* x is a record as Marshal writes one: every field under its own name and
\* not empty
RECURSIVE AsWritten(_, _)
AsWritten(x, fields) ==
  \A q \in x.m :
    (\E f \in fields : ToLower(f) = ToLower(q[1])) =>
      /\ q[1] \in fields
      /\ Filled(q[2])
      /\ q[1] \in {KeyIcons, KeyScreenshots} =>
           \A i \in DOMAIN q[2].a : IconAsWritten(q[2].a[i])
      /\ q[1] = KeyResources =>
           \A r \in q[2].m : r[2].k = "nil" \/ AsWritten(r[2], ResourceFields)

EmptyFieldDroppedWitness ==
  /\ masl.pc = "marshaled"
  /\ masl.out # masl.data
  /\ \E q \in masl.wire.m : q[1] = KeyName /\ q[2].b = <<>>

\* a null resource was decoded to a nil *Resource and Valid was called
NilResourceDecodedWitness ==
  /\ masl.pc = "validated"
  /\ masl.wire # NilV
  /\ \E path \in DOMAIN masl.doc.Resources.m : masl.doc.Resources.m[path].nil


(***************************************************************************)
(* package rasl: DirectoryHandler, its workers, the goroutine that walks   *)
(* the directory, the goroutine that signals completion, and the collector *)
(* The channels have no buffer: a send and its receive are one step.       *)
(***************************************************************************)
\* DirectoryHandler up to the collector's loop
DirectoryHandler ==
  /\ walk.pc = "none"
  /\ \E dir \in DirInputs, hashBlake3 \in BOOLEAN, n \in 1..MaxWorkers :
       walk' = [walk EXCEPT !.pc = "collect", !.dir = dir,
                            !.hashBlake3 = hashBlake3,
                            !.workers = [w \in 1..n |-> Waiting]]
  /\ UNCHANGED <<codec, stream, cid, fetch, masl>>

\* fs.WalkDir calls the function for the next entry, or has no entry left
\* and pathCh is closed
WalkDir ==
  /\ walk.pc # "none"
  /\ walk.walker.pc = "walk"
  /\ LET x == walk.walker.next IN
     IF x > Len(walk.dir)
     THEN walk' = [walk EXCEPT !.walker.pc = "done", !.closed = TRUE]
     ELSE walk' = [walk EXCEPT !.walker =
            CASE walk.dir[x].kind = "walkerr" -> [pc |-> "errCh", next |-> x]
              [] walk.dir[x].kind = "other" -> [pc |-> "walk", next |-> x + 1]
              [] OTHER -> [pc |-> "pathCh", next |-> x]]
  /\ UNCHANGED <<codec, stream, cid, fetch, masl>>

\* pathCh <- path meets a worker's case path, ok := <-pathCh
TakePath(w) ==
  /\ walk.walker.pc = "pathCh"
  /\ w \in DOMAIN walk.workers
  /\ walk.workers[w].pc = "select"
  /\ walk' = [walk EXCEPT !.workers[w] = [pc |-> "hash", path |-> walk.walker.next],
                          !.walker = [pc |-> "walk", next |-> walk.walker.next + 1]]
  /\ UNCHANGED <<codec, stream, cid, fetch, masl>>

\* a worker's select finds the context cancelled, or pathCh closed
WorkerReturns(w) ==
  /\ w \in DOMAIN walk.workers
  /\ walk.workers[w].pc = "select"
  /\ walk.cancelled \/ walk.closed
  /\ walk' = [walk EXCEPT !.workers[w].pc = "done"]
  /\ UNCHANGED <<codec, stream, cid, fetch, masl>>

\* a worker opens and reads its file
WorkerHashes(w) ==
  /\ w \in DOMAIN walk.workers
  /\ walk.workers[w].pc = "hash"
  /\ walk' = [walk EXCEPT !.workers[w].pc =
                IF walk.dir[walk.workers[w].path].kind = "unreadable" THEN "errCh"
                ELSE "retCh"]
  /\ UNCHANGED <<codec, stream, cid, fetch, masl>>

\* wg.Wait() returns in the goroutine that signals completion
WaitReturns ==
  /\ walk.pc # "none"
  /\ walk.signal = "wait"
  /\ AllDone(walk.workers)
  /\ walk' = [walk EXCEPT !.signal = "errCh"]
  /\ UNCHANGED <<codec, stream, cid, fetch, masl>>

\* the collector's case r := <-retCh meets a worker's retCh <- r
CollectRet(w) ==
  /\ walk.pc = "collect"
  /\ w \in DOMAIN walk.workers
  /\ walk.workers[w].pc = "retCh"
  /\ LET path == walk.workers[w].path IN
     walk' = [walk EXCEPT !.workers[w] = Waiting,
                          !.cidPaths = Store(@, HashFile(path, walk.dir[path].content,
                                                         walk.hashBlake3),
                                             walk.hashBlake3)]
  /\ UNCHANGED <<codec, stream, cid, fetch, masl>>

\* the collector's case err := <-errCh meets a worker's errCh <- err
CollectWorkerErr(w) ==
  /\ walk.pc = "collect"
  /\ w \in DOMAIN walk.workers
  /\ walk.workers[w].pc = "errCh"
  /\ walk' = [walk EXCEPT !.workers[w].pc = "done", !.cancelled = TRUE,
                          !.pc = "returned", !.ret = "error"]
  /\ UNCHANGED <<codec, stream, cid, fetch, masl>>

\* it meets the walker's errCh <- err, after which the walk stops
CollectWalkErr ==
  /\ walk.pc = "collect"
  /\ walk.walker.pc = "errCh"
  /\ walk' = [walk EXCEPT !.walker = [pc |-> "walk", next |-> Len(walk.dir) + 1],
                          !.cancelled = TRUE, !.pc = "returned", !.ret = "error"]
  /\ UNCHANGED <<codec, stream, cid, fetch, masl>>

\* it meets errCh <- nil: the handler is made
CollectDone ==
  /\ walk.pc = "collect"
  /\ walk.signal = "errCh"
  /\ walk' = [walk EXCEPT !.signal = "done", !.pc = "returned", !.ret = "handler"]
  /\ UNCHANGED <<codec, stream, cid, fetch, masl>>

WalkNext ==
  \/ DirectoryHandler
  \/ WalkDir
  \/ \E w \in 1..MaxWorkers : TakePath(w)
  \/ \E w \in 1..MaxWorkers : WorkerReturns(w)
  \/ \E w \in 1..MaxWorkers : WorkerHashes(w)
  \/ WaitReturns
  \/ \E w \in 1..MaxWorkers : CollectRet(w)
  \/ \E w \in 1..MaxWorkers : CollectWorkerErr(w)
  \/ CollectWalkErr
  \/ CollectDone

WalkSpec == Init /\ [][WalkNext]_vars

\* every goroutine that can take a step takes one
WalkFairSpec ==
  /\ WalkSpec
  /\ WF_vars(WalkDir)
  /\ WF_vars(WaitReturns)
  /\ WF_vars(CollectWalkErr)
  /\ WF_vars(CollectDone)
  /\ \A w \in 1..MaxWorkers :
       /\ WF_vars(TakePath(w))
       /\ WF_vars(WorkerReturns(w))
       /\ WF_vars(WorkerHashes(w))
       /\ WF_vars(CollectRet(w))
       /\ WF_vars(CollectWorkerErr(w))


(***************************************************************************)
(* RASL: the directory handler                                             *)
(***************************************************************************)
Files == {x \in 1..Len(walk.dir) : walk.dir[x].kind = "file"}
Failing == {x \in 1..Len(walk.dir) : walk.dir[x].kind \in {"unreadable", "walkerr"}}
Served(hashType, digest) ==
  \E e \in walk.cidPaths :
    /\ e[1] = String(NewCidFromInfo(CodecRaw, hashType, digest).b)
    /\ e[2] \in Files
    /\ \E h \in {HashFile(e[2], walk.dir[e[2]].content, walk.hashBlake3)} :
         digest \in {h.digestSha256, h.digestBlake3}

\* C26: when DirectoryHandler returns a handler, the table it serves from has,
\* for every regular file the walk found, an entry under the file's SHA-256
\* CID that leads to a file of that content, and one under its BLAKE3 CID
\* when hashBlake3 is set, whatever the number of workers and the order of
\* the steps of walker, workers and collector.
NoResultLost ==
  walk.ret = "handler" =>
    \A x \in Files :
      /\ Served(HashTypeSha256, Sum256(walk.dir[x].content))
      /\ walk.hashBlake3 => Served(HashTypeBlake3, Blake3Sum(walk.dir[x].content))

NoResultLostWitness ==
  /\ walk.ret = "handler"
  /\ walk.hashBlake3
  /\ Len(walk.workers) = MaxWorkers
  /\ Cardinality(Files) = MaxFiles
  /\ Cardinality(walk.cidPaths) = 4

\* the collector is never left with nothing to receive while it waits: some
\* goroutine can still take a step
Progressing ==
  \/ walk.walker.pc \in {"walk", "errCh"}
  \/ walk.signal = "errCh"
  \/ walk.signal = "wait" /\ AllDone(walk.workers)
  \/ \E w \in DOMAIN walk.workers :
       \/ walk.workers[w].pc \in {"hash", "retCh", "errCh"}
       \/ walk.workers[w].pc = "select"
            /\ (walk.closed \/ walk.cancelled \/ walk.walker.pc = "pathCh")

\* C27: when opening or reading a file or the walk itself fails,
\* DirectoryHandler returns an error and no handler; while the collector
\* waits, the completion signal is never on offer together with, or ahead of,
\* an error that a worker or the walker has to report, and the collector
\* always has a step coming.
ErrorNeverMissed ==
  /\ walk.ret = "handler" => Failing = {}
  /\ walk.pc = "returned" /\ Failing # {} => walk.ret = "error"
  /\ walk.ret = "error" => Failing # {}
  /\ walk.pc = "collect" /\ walk.signal # "wait" =>
       /\ walk.walker.pc = "done"
       /\ AllDone(walk.workers)
       /\ Failing = {}
  /\ walk.pc = "collect" => Progressing

ErrorNeverMissedWitness ==
  /\ walk.ret = "error"
  /\ walk.cidPaths # {}
  /\ Len(walk.workers) = MaxWorkers
  /\ \E x \in Failing : walk.dir[x].kind = "unreadable" /\ x = Len(walk.dir)
  /\ \A w \in DOMAIN walk.workers : walk.workers[w].pc = "done"

WalkErrorWitness ==
  /\ walk.ret = "error"
  /\ walk.cidPaths # {}
  /\ \E x \in Failing : walk.dir[x].kind = "walkerr"

Stopped ==
  /\ AllDone(walk.workers)
  /\ walk.walker.pc = "done"
  /\ walk.signal = "done"

\* C28: after DirectoryHandler has returned an error, every worker, the
\* goroutine that walks the directory and the goroutine that signals
\* completion eventually come to their end: none stays blocked on a send to
\* pathCh, retCh or errCh.
AllStoppedAfterError == (walk.ret = "error") ~> Stopped

\* the goroutine that signals completion is at errCh <- nil with nobody left
\* to receive
SignalBlockedForever ==
  /\ walk.ret = "error"
  /\ walk.signal = "errCh"
  /\ AllDone(walk.workers)
  /\ walk.walker.pc = "done"

====
